---- MODULE Spec2Model ----
(***************************************************************************)
(* Model of the activity/music segmentation core of run-sous-bpm:          *)
(*   core/src/geo/simplification.rs        (RouteSimplifier, RDP)          *)
(*   core/src/services/analytics_service.rs (SegmentBuilder, statistics,   *)
(*                                           get_activity_music)           *)
(*   api/src/handlers/music.rs             (HTTP handler, response shape)  *)
(*                                                                         *)
(* Numbers.  Timestamps are integers (seconds).  Coordinates are integers  *)
(* k standing for the f64 k * 2^-13 degree (about 13.6 m of latitude).  A  *)
(* distance is carried as the exact quantities the code computes it from:  *)
(* the |cross product|, the squared length of the line and the latitude    *)
(* for a distance to a line, the two differences and the latitude for a    *)
(* distance between two points.  Two distances with the same quantities    *)
(* are the same f64.  Two different distances are compared on their exact  *)
(* values, squared, the cos(latitude) factor included: on plain integers   *)
(* where these decide, and otherwise with integers of any size, once, when *)
(* the call starts (the variable rounding holds the comparisons found      *)
(* true).  When the exact values are closer than the rounding of the f64   *)
(* operations (2^-45 of the value is allowed for), f64::cos, which has no  *)
(* specified precision, decides, and rounding is any outcome of it.        *)
(* An f64 tolerance is a record [kind, v]: finite v meters (an integer),   *)
(* NaN, +infinity or -infinity; the f64 that a computed distance dist      *)
(* takes has kind "sqrt" and field dist.                                   *)
(* Option<T> is the empty sequence (None) or a one-element sequence.       *)
(***************************************************************************)
EXTENDS Integers, Sequences, FiniteSets, TLC

\* ------------------------------------------------------------------------
\* Bounds of the model
\* ------------------------------------------------------------------------
MaxSamples == 4
MaxListens == 2
MaxTime == 6
MaxCoord == 1
MaxPoints == 4
GridMax == 1

\* ------------------------------------------------------------------------
\* Option, Result and f64 values
\* ------------------------------------------------------------------------
None == <<>>
Some(x) == <<x>>
is_some(o) == o # <<>>
unwrap(o) == o[1]
unwrap_or(o, dflt) == IF is_some(o) THEN o[1] ELSE dflt

Ok(v) == [ok |-> TRUE, val |-> v, err |-> "none"]
Err(e) == [ok |-> FALSE, val |-> <<>>, err |-> e]

Fin(v) == [kind |-> "fin", v |-> v]
NaN == [kind |-> "nan", v |-> 0]
PosInf == [kind |-> "pinf", v |-> 0]
NegInf == [kind |-> "ninf", v |-> 0]
\* the finite positive f64 the code computes for the distance dist
FinSqrt(dist) == [kind |-> "sqrt", v |-> 0, dist |-> dist]

\* epsilon <= 0.0 on f64: false for NaN and +infinity, true for -infinity
f64_le_zero(e) == \/ e.kind = "ninf"
                  \/ e.kind = "fin" /\ e.v <= 0
is_nan(e) == e.kind = "nan"

\* ------------------------------------------------------------------------
\* Sequence helpers (iterator adaptors of the source)
\* ------------------------------------------------------------------------
RECURSIVE SelectIdx(_, _)
\* positions i >= from, ascending, at which flags[i] holds
SelectIdx(flags, from) ==
    IF from > Len(flags) THEN <<>>
    ELSE IF flags[from] THEN <<from>> \o SelectIdx(flags, from + 1)
         ELSE SelectIdx(flags, from + 1)

\* iter().filter(..).cloned().collect(), flags[k] the filter's value on s[k]
Filter(s, flags) == LET idx == SelectIdx(flags, 1)
                    IN [k \in 1..Len(idx) |-> s[idx[k]]]

\* iter().filter(..).count()
Count(flags) == Len(SelectIdx(flags, 1))

RECURSIVE SumLen(_, _)
SumLen(segs, k) == IF k > Len(segs) THEN 0
                   ELSE Len(segs[k].points) + SumLen(segs, k + 1)

\* ------------------------------------------------------------------------
\* Natural numbers of any size: little-endian sequences of limbs below 2^15,
\* without leading zero limbs (zero is the empty sequence).  An operator
\* takes the value of an argument once: CHOOSE r \in {e : x \in {a}} : TRUE
\* is e with x the value of a.
\* ------------------------------------------------------------------------
LIMB == 32768

RECURSIVE BigFromInt(_)
BigFromInt(n) == IF n = 0 THEN <<>> ELSE <<n % LIMB>> \o BigFromInt(n \div LIMB)

RECURSIVE TrimLen(_, _)
\* the position of the highest limb of a[1..n] that is not 0
TrimLen(a, n) == IF n = 0 THEN 0
                 ELSE IF a[n] # 0 THEN n
                 ELSE TrimLen(a, n - 1)
BigTrim(a) == CHOOSE r \in {SubSeq(x, 1, TrimLen(x, Len(x))) : x \in {a}} : TRUE

LimbAt(a, i) == IF i <= Len(a) THEN a[i] ELSE 0

RECURSIVE BigAddFrom(_, _, _, _)
BigAddFrom(a, b, i, carry) ==
    IF i > Len(a) /\ i > Len(b) THEN BigFromInt(carry)
    ELSE CHOOSE r \in {<<s % LIMB>> \o BigAddFrom(a, b, i + 1, s \div LIMB) :
                          s \in {LimbAt(a, i) + LimbAt(b, i) + carry}} : TRUE
BigAdd(a, b) == CHOOSE r \in {BigAddFrom(x, y, 1, 0) : x \in {a}, y \in {b}} : TRUE

RECURSIVE BigSubFrom(_, _, _, _)
BigSubFrom(a, b, i, borrow) ==
    IF i > Len(a) THEN <<>>
    ELSE CHOOSE r \in {IF s < 0 THEN <<s + LIMB>> \o BigSubFrom(a, b, i + 1, 1)
                       ELSE <<s>> \o BigSubFrom(a, b, i + 1, 0) :
                          s \in {a[i] - LimbAt(b, i) - borrow}} : TRUE
\* a - b for a >= b
BigSub(a, b) == CHOOSE r \in {BigTrim(BigSubFrom(x, y, 1, 0)) : x \in {a}, y \in {b}} : TRUE

RECURSIVE BigMulSmallFrom(_, _, _, _)
BigMulSmallFrom(a, m, i, carry) ==
    IF i > Len(a) THEN BigFromInt(carry)
    ELSE CHOOSE r \in {<<s % LIMB>> \o BigMulSmallFrom(a, m, i + 1, s \div LIMB) :
                          s \in {a[i] * m + carry}} : TRUE
\* a * m for 0 <= m < 2^15
BigMulSmall(a, m) ==
    CHOOSE r \in {IF n = 0 THEN <<>> ELSE BigMulSmallFrom(x, n, 1, 0) :
                     x \in {a}, n \in {m}} : TRUE

\* a * 2^(15 k) and a div 2^(15 k)
ShiftLeft(a, k) ==
    CHOOSE r \in {IF x = <<>> THEN x ELSE [i \in 1..k |-> 0] \o x : x \in {a}} : TRUE
ShiftRight(a, k) ==
    CHOOSE r \in {IF Len(x) <= k THEN <<>> ELSE SubSeq(x, k + 1, Len(x)) :
                     x \in {a}} : TRUE

RECURSIVE BigMulFrom(_, _, _)
BigMulFrom(a, b, i) ==
    IF i > Len(b) THEN <<>>
    ELSE BigAdd(ShiftLeft(BigMulSmall(a, b[i]), i - 1), BigMulFrom(a, b, i + 1))
BigMul(a, b) == CHOOSE r \in {BigMulFrom(x, y, 1) : x \in {a}, y \in {b}} : TRUE

RECURSIVE BigDivSmallFrom(_, _, _, _)
BigDivSmallFrom(a, m, i, rem) ==
    IF i = 0 THEN <<>>
    ELSE CHOOSE r \in {BigDivSmallFrom(a, m, i - 1, cur % m) \o <<cur \div m>> :
                          cur \in {rem * LIMB + a[i]}} : TRUE
\* a div m for 0 < m < 2^15
BigDivSmall(a, m) ==
    CHOOSE r \in {BigTrim(BigDivSmallFrom(x, m, Len(x), 0)) : x \in {a}} : TRUE

RECURSIVE BigGtFrom(_, _, _)
BigGtFrom(a, b, i) == IF i = 0 THEN FALSE
                      ELSE IF a[i] # b[i] THEN a[i] > b[i]
                      ELSE BigGtFrom(a, b, i - 1)
BigGt(a, b) ==
    CHOOSE r \in {IF Len(x) # Len(y) THEN Len(x) > Len(y)
                  ELSE BigGtFrom(x, y, Len(x)) : x \in {a}, y \in {b}} : TRUE

Abs(x) == IF x < 0 THEN 0 - x ELSE x
\* |x| * |y| for 32-bit integers
BigProduct(x, y) == IF Abs(x) < LIMB /\ Abs(y) < LIMB
                    THEN BigFromInt(Abs(x) * Abs(y))
                    ELSE BigMul(BigFromInt(Abs(x)), BigFromInt(Abs(y)))

\* The comparisons `a > b` of the distances of a run that are true and that
\* plain integers do not decide, a set of pairs <<a, b>>: those the exact
\* values make true and, of two values closer than the rounding of the f64
\* operations, those the build makes true (cos() has no specified precision,
\* so which of the two comes out greater depends on the build).
VARIABLE rounding

\* ------------------------------------------------------------------------
\* geo/simplification.rs
\* ------------------------------------------------------------------------
METERS_PER_DEGREE_LAT == 111320
\* coordinate units in one degree: lat and lng are multiples of 2^-13 degree
UNITS_PER_DEGREE == 8192

GpsPoint(lat, lng) == [lat |-> lat, lng |-> lng]

\* the 0.0 that max_dist starts with, and every distance that is 0.0
Zero == [kind |-> "point", dx |-> 0, dy |-> 0, lat |-> 0]

RECURSIVE ReducedPerp(_, _, _)
\* |cross| / sqrt(len_sq) does not change in f64 when cross is halved and
\* len_sq is divided by four
ReducedPerp(cross, len_sq, lat) ==
    CHOOSE r \in {IF c[1] % 2 = 0 /\ l[1] % 4 = 0
                  THEN ReducedPerp(BigDivSmall(c, 2), BigDivSmall(l, 4), lat)
                  ELSE [kind |-> "perp", cross |-> c, len_sq |-> l, lat |-> lat] :
                     c \in {cross}, l \in {len_sq}} : TRUE

\* degrees * sqrt(M^2 + (M cos lat)^2) with degrees = |cross| / sqrt(len_sq);
\* latitude is line_start.lat + line_end.lat, twice the code's midpoint
degrees_to_meters(degrees, latitude) ==
    CHOOSE r \in {IF d.cross = <<>> THEN Zero
                  ELSE ReducedPerp(d.cross, d.len_sq, Abs(latitude)) :
                     d \in {degrees}} : TRUE

\* sqrt(dx^2 + dy^2) with dx = dlng * M * cos(avg_lat), dy = dlat * M; the
\* latitude kept is p1.lat + p2.lat, twice the code's midpoint, and it plays
\* no part when dlng = 0
equirectangular_distance(p1, p2) ==
    [kind |-> "point", dx |-> Abs(p2.lng - p1.lng), dy |-> Abs(p2.lat - p1.lat),
     lat |-> IF p2.lng = p1.lng THEN 0 ELSE Abs(p1.lat + p2.lat)]

perpendicular_distance(point, line_start, line_end) ==
    LET lv0 == line_end.lng - line_start.lng
        lv1 == line_end.lat - line_start.lat
        pv0 == point.lng - line_start.lng
        pv1 == point.lat - line_start.lat
        same_sign == ((pv0 < 0) # (lv1 < 0)) = ((pv1 < 0) # (lv0 < 0))
    IN CHOOSE r \in
         {IF len_sq = <<>>
          THEN equirectangular_distance(point, line_start)
          ELSE degrees_to_meters(
                   [cross |-> IF ~same_sign THEN BigAdd(t1, t2)
                              ELSE IF BigGt(t1, t2) THEN BigSub(t1, t2)
                              ELSE BigSub(t2, t1),
                    len_sq |-> len_sq],
                   line_start.lat + line_end.lat) :
             t1 \in {BigProduct(pv0, lv1)},
             t2 \in {BigProduct(pv1, lv0)},
             len_sq \in {BigAdd(BigProduct(lv0, lv0), BigProduct(lv1, lv1))}} : TRUE

\* --- the value of a distance: its square is (P - Q * S) / D square units
\* of 111320 / 8192 meters, S = sin^2 of the latitude; for a tolerance of v
\* meters it is v^2 * 8192^2 / 111320^2; kind "planar" is |cross| over the
\* length of the line at 111320 meters per degree
DistP(r) == CASE r.kind = "perp" -> BigMulSmall(BigMul(r.cross, r.cross), 2)
              [] r.kind = "planar" -> BigProduct(r.cross, r.cross)
              [] r.kind = "point" -> BigAdd(BigProduct(r.dx, r.dx), BigProduct(r.dy, r.dy))
              [] OTHER -> ShiftLeft(BigMulSmall(BigProduct(r.v, r.v), 2048), 1)
DistQ(r) == CASE r.kind = "perp" -> BigMul(r.cross, r.cross)
              [] r.kind = "planar" -> <<>>
              [] r.kind = "point" -> BigProduct(r.dx, r.dx)
              [] OTHER -> <<>>
DistD(r) == CASE r.kind = "perp" -> r.len_sq
              [] r.kind = "planar" -> BigFromInt(r.len_sq)
              [] r.kind = "point" -> <<1>>
              [] OTHER -> BigProduct(METERS_PER_DEGREE_LAT, METERS_PER_DEGREE_LAT)
DistLat(r) == IF r.kind = "fin" THEN 0 ELSE r.lat

\* the f64 operations of the code give the value without any rounding: a
\* tolerance, a distance along a meridian, a distance along the equator
ExactDist(r) == \/ r.kind \in {"fin", "planar"}
                \/ r.kind = "point" /\ (r.dx = 0 \/ (r.dy = 0 /\ r.lat = 0))

\* floor(pi^2 * 2^90)
PI_SQUARED == <<6966, 11121, 29394, 25693, 6455, 28495, 9>>
\* fractions are counted in units of 2^-90, six limbs
FRAC_LIMBS == 6
\* bound of the error of Sin2 in those units
SIN2_ERR == <<1024>>

RECURSIVE Sin2Series(_, _, _, _, _)
\* (1 - cos x) / 2 = (x^2/2! - x^4/4! + x^6/6! - ..) / 2, x^2 = u; t is the
\* last term, pos and neg the sums of the terms added and subtracted
Sin2Series(t, u, k, pos, neg) ==
    IF t = <<>> THEN BigDivSmall(BigSub(pos, neg), 2)
    ELSE CHOOSE r \in
           {IF k % 2 = 0
            THEN Sin2Series(nxt, u, k + 1, pos_now, BigAdd(neg_now, nxt))
            ELSE Sin2Series(nxt, u, k + 1, BigAdd(pos_now, nxt), neg_now) :
               nxt \in {BigDivSmall(ShiftRight(BigMul(t, u), FRAC_LIMBS),
                                    (2 * k - 1) * (2 * k))},
               pos_now \in {pos}, neg_now \in {neg}} : TRUE

\* sin^2(avg_lat * PI / 180) for avg_lat = lat / 2 units: x = 2 * avg_lat_rad
\* = pi * lat / (180 * 8192) and 180 * 8192 = 45 * 2^15
Sin2(lat) ==
    CHOOSE r \in
      {Sin2Series(BigDivSmall(u, 2), u, 2, BigDivSmall(u, 2), <<>>) :
          u \in {BigDivSmall(ShiftRight(BigMul(BigProduct(lat, lat), PI_SQUARED), 2),
                             2025)}} : TRUE
Sin2Lo(lat) == IF lat = 0 THEN <<>>
               ELSE CHOOSE r \in {IF BigGt(s, SIN2_ERR) THEN BigSub(s, SIN2_ERR)
                                  ELSE <<>> : s \in {Sin2(lat)}} : TRUE
Sin2Hi(lat) == IF lat = 0 THEN <<>> ELSE BigAdd(Sin2(lat), SIN2_ERR)

\* P * 2^90 * other: the value at S = 0, on the common denominator of a
\* comparison with a distance of denominator other
DistTop(r, other) == BigMul(ShiftLeft(DistP(r), FRAC_LIMBS), other)
\* what the f64 operations can add or remove by rounding: 2^-45 of the value
DistTol(r, other) == IF ExactDist(r) THEN <<>>
                     ELSE BigAdd(ShiftRight(DistTop(r, other), 3), <<1>>)
\* the most the f64 value lies below DistTop, and the largest f64 value
DistDown(r, other) ==
    BigAdd(BigMul(BigMul(DistQ(r), Sin2Hi(DistLat(r))), other), DistTol(r, other))
DistUp(r, other) ==
    BigAdd(BigSub(DistTop(r, other), BigMul(BigMul(DistQ(r), Sin2Lo(DistLat(r))), other)),
           DistTol(r, other))

\* a > b on the f64 values of two distances, from their exact values: "gt",
\* "le", or "round" when the two values are closer than the f64 operations
\* resolve and the comparison is decided by their rounding
DistCmpExact(a, b) ==
    IF BigGt(DistTop(a, DistD(b)), BigAdd(DistUp(b, DistD(a)), DistDown(a, DistD(b))))
    THEN "gt"
    ELSE IF ~BigGt(BigAdd(DistUp(a, DistD(b)), DistDown(b, DistD(a))), DistTop(b, DistD(a)))
         THEN "le"
         ELSE "round"

\* distances of a few units close to the equator: P and D as plain integers
SmallDist(r) ==
    CASE r.kind = "perp" -> /\ Len(r.cross) = 1 /\ r.cross[1] <= 90
                            /\ Len(r.len_sq) = 1 /\ r.len_sq[1] <= 512
                            /\ r.lat <= 32
      [] r.kind = "point" -> r.dx <= 90 /\ r.dy <= 90 /\ r.lat <= 32
      [] r.kind = "planar" -> r.cross <= 90 /\ r.len_sq <= 512
      [] OTHER -> FALSE
SmallP(r) == CASE r.kind = "perp" -> 2 * r.cross[1] * r.cross[1]
               [] r.kind = "planar" -> r.cross * r.cross
               [] OTHER -> r.dx * r.dx + r.dy * r.dy
SmallQ(r) == CASE r.kind = "perp" -> r.cross[1] * r.cross[1]
               [] r.kind = "planar" -> 0
               [] OTHER -> r.dx * r.dx
SmallD(r) == CASE r.kind = "perp" -> r.len_sq[1]
               [] r.kind = "planar" -> r.len_sq
               [] OTHER -> 1
\* Q * lat^2 orders two distances of equal P / D when it differs by P / 8 or more
TinyDist(r) == SmallP(r) <= 128 /\ r.lat <= 8
FirstOrder(r, s) == 8 * SmallQ(r) * r.lat * r.lat * SmallP(s)

\* a > b on the f64 values as far as plain integers decide it: "gt", "le",
\* or "slow".  With P <= 16200, D <= 512 and S < 1.2e-9 two different P / D
\* are 1.2e-7 apart, and 184.65 < (111320 / 8192)^2 < 184.66 square meters
\* per square unit
DistFast(a, b) ==
    IF a = b THEN "le"
    ELSE IF b = Zero THEN "gt"
    ELSE IF a = Zero THEN "le"
    ELSE IF SmallDist(a) /\ SmallDist(b)
    THEN IF SmallP(a) * SmallD(b) > SmallP(b) * SmallD(a) THEN "gt"
         ELSE IF SmallP(a) * SmallD(b) < SmallP(b) * SmallD(a) THEN "le"
         ELSE IF ExactDist(a) /\ ExactDist(b) THEN "le"
         ELSE IF TinyDist(a) /\ TinyDist(b)
                 /\ FirstOrder(b, a) - FirstOrder(a, b) >= SmallP(a) * SmallP(b)
              THEN "gt"
         ELSE IF TinyDist(a) /\ TinyDist(b)
                 /\ FirstOrder(a, b) - FirstOrder(b, a) >= SmallP(a) * SmallP(b)
              THEN "le"
         ELSE "slow"
    ELSE IF SmallDist(a) /\ b.kind = "fin" /\ b.v <= 100
    THEN IF SmallP(a) * 18465 > b.v * b.v * SmallD(a) * 100 THEN "gt"
         ELSE IF SmallP(a) * 18466 <= b.v * b.v * SmallD(a) * 100 THEN "le"
         ELSE "slow"
    ELSE "slow"

\* a > b on the f64 values of two distances: "gt", "le" or "round"
DistCmp(a, b) ==
    CHOOSE r \in {IF DistFast(x, y) = "slow" THEN DistCmpExact(x, y)
                  ELSE DistFast(x, y) : x \in {a}, y \in {b}} : TRUE

\* dist > max_dist on f64: decided on plain integers, or one of the
\* comparisons the call was started with
DistGt(a, b) == \E x \in {a}, y \in {b} :
                    \E c \in {DistFast(x, y)} :
                        c = "gt" \/ (c = "slow" /\ <<x, y>> \in rounding)

\* max_dist > epsilon on f64
DistGtEps(dist, e) ==
    CASE e.kind = "pinf" -> FALSE
      [] e.kind = "nan"  -> FALSE
      [] e.kind = "ninf" -> TRUE
      [] e.kind = "sqrt" -> DistGt(dist, e.dist)
      [] OTHER -> IF e.v < 0 THEN TRUE ELSE DistGt(dist, e)

RECURSIVE farthest_scan_last_wins(_, _, _, _, _, _)
\* variant: dist >= max_dist, the last of equally distant points wins
farthest_scan_last_wins(points, start, end, i, max_idx, max_dist) ==
    IF i >= end THEN [idx |-> max_idx, dist |-> max_dist]
    ELSE CHOOSE r \in
           {IF ~DistGt(m, dist)
            THEN farthest_scan_last_wins(points, start, end, i + 1, i, dist)
            ELSE farthest_scan_last_wins(points, start, end, i + 1, max_idx, m) :
               dist \in {perpendicular_distance(points[i], points[start], points[end])},
               m \in {max_dist}} : TRUE

RECURSIVE farthest_scan(_, _, _, _, _, _)
\* the for loop of find_farthest_point, i from start+1 to end-1
farthest_scan(points, start, end, i, max_idx, max_dist) ==
    IF i >= end THEN [idx |-> max_idx, dist |-> max_dist]
    ELSE CHOOSE r \in
           {IF DistGt(dist, m)
            THEN farthest_scan(points, start, end, i + 1, i, dist)
            ELSE farthest_scan(points, start, end, i + 1, max_idx, m) :
               dist \in {perpendicular_distance(points[i], points[start], points[end])},
               m \in {max_dist}} : TRUE

find_farthest_point(points, start, end) ==
    farthest_scan(points, start, end, start + 1, start, Zero)

\* variant: only the sub-range (start, max_idx) is pushed
rdp_step_one_range(points, epsilon, st) ==
    LET top == st.stack[Len(st.stack)]
        rest == SubSeq(st.stack, 1, Len(st.stack) - 1)
        start == top[1]
        end == top[2]
    IN IF end - start <= 1
       THEN [keep |-> st.keep, stack |-> rest]
       ELSE CHOOSE r \in
              {IF DistGtEps(far.dist, epsilon)
               THEN [keep |-> [st.keep EXCEPT ![far.idx] = TRUE],
                     stack |-> rest \o << <<start, far.idx>> >>]
               ELSE [keep |-> st.keep, stack |-> rest] :
                  far \in {find_farthest_point(points, start, end)}} : TRUE

\* variant: the second sub-range starts after the split point
rdp_step_after_split(points, epsilon, st) ==
    LET top == st.stack[Len(st.stack)]
        rest == SubSeq(st.stack, 1, Len(st.stack) - 1)
        start == top[1]
        end == top[2]
    IN IF end - start <= 1
       THEN [keep |-> st.keep, stack |-> rest]
       ELSE CHOOSE r \in
              {IF DistGtEps(far.dist, epsilon)
               THEN [keep |-> [st.keep EXCEPT ![far.idx] = TRUE],
                     stack |-> rest \o << <<start, far.idx>>, <<far.idx + 1, end>> >>]
               ELSE [keep |-> st.keep, stack |-> rest] :
                  far \in {find_farthest_point(points, start, end)}} : TRUE

\* one iteration of the while loop of rdp_iterative: pop, test, push
rdp_step(points, epsilon, st) ==
    LET top == st.stack[Len(st.stack)]
        rest == SubSeq(st.stack, 1, Len(st.stack) - 1)
        start == top[1]
        end == top[2]
    IN IF end - start <= 1
       THEN [keep |-> st.keep, stack |-> rest]
       ELSE CHOOSE r \in
              {IF DistGtEps(far.dist, epsilon)
               THEN [keep |-> [st.keep EXCEPT ![far.idx] = TRUE],
                     stack |-> rest \o << <<start, far.idx>>, <<far.idx, end>> >>]
               ELSE [keep |-> st.keep, stack |-> rest] :
                  far \in {find_farthest_point(points, start, end)}} : TRUE

RECURSIVE rdp_loop(_, _, _)
rdp_loop(points, epsilon, st) ==
    CHOOSE r \in {IF s.stack = <<>> THEN s.keep
                  ELSE rdp_loop(points, epsilon, rdp_step(points, epsilon, s)) :
                     s \in {st}} : TRUE

\* variant: keep[n - 1] is not set
rdp_init_first_only(points) ==
    LET n == Len(points)
    IN [keep |-> [i \in 1..n |-> i = 1], stack |-> << <<1, n>> >>]

\* indices are 1-based here; keep[1] and keep[n] are the source's keep[0], keep[n-1]
rdp_init(points) ==
    LET n == Len(points)
    IN [keep |-> [i \in 1..n |-> i = 1 \/ i = n], stack |-> << <<1, n>> >>]

rdp_iterative(points, epsilon) ==
    CHOOSE r \in {rdp_loop(p, epsilon, rdp_init(p)) : p \in {points}} : TRUE

has_coords(model) == is_some(model.latitude) /\ is_some(model.longitude)

\* (gps_points, index_map); index_map holds 1-based positions in points
extract_gps_points(points) ==
    LET index_map == SelectIdx([k \in 1..Len(points) |-> has_coords(points[k])], 1)
    IN [gps_points |-> [k \in 1..Len(index_map) |->
                           GpsPoint(unwrap(points[index_map[k]].latitude),
                                    unwrap(points[index_map[k]].longitude))],
        index_map |-> index_map]

\* variant: only an input without any coordinates is rejected (len() < 1)
simplify_gps_route_one_point(points, epsilon) ==
    IF f64_le_zero(epsilon) \/ is_nan(epsilon)
    THEN Err("InvalidEpsilon")
    ELSE LET ex == extract_gps_points(points)
             n == Len(ex.gps_points)
         IN IF n < 1 THEN Err("NoGpsCoordinates")
            ELSE IF n = 2 THEN Ok(<<ex.index_map[1], ex.index_map[2]>>)
            ELSE LET keep_flags == rdp_iterative(ex.gps_points, epsilon)
                     kept == SelectIdx(keep_flags, 1)
                 IN Ok([k \in 1..Len(kept) |-> ex.index_map[kept[k]]])

\* variant: the two-point case returns [0, 1], not the mapped indices
simplify_gps_route_unmapped_pair(points, epsilon) ==
    IF f64_le_zero(epsilon) \/ is_nan(epsilon)
    THEN Err("InvalidEpsilon")
    ELSE LET ex == extract_gps_points(points)
             n == Len(ex.gps_points)
         IN IF n < 2 THEN Err("NoGpsCoordinates")
            ELSE IF n = 2 THEN Ok(<<1, 2>>)
            ELSE LET keep_flags == rdp_iterative(ex.gps_points, epsilon)
                     kept == SelectIdx(keep_flags, 1)
                 IN Ok([k \in 1..Len(kept) |-> ex.index_map[kept[k]]])

\* variant: the retained positions of the filtered sequence are returned
\* without index_map
simplify_gps_route_filtered_positions(points, epsilon) ==
    IF f64_le_zero(epsilon) \/ is_nan(epsilon)
    THEN Err("InvalidEpsilon")
    ELSE LET ex == extract_gps_points(points)
             n == Len(ex.gps_points)
         IN IF n < 2 THEN Err("NoGpsCoordinates")
            ELSE IF n = 2 THEN Ok(<<ex.index_map[1], ex.index_map[2]>>)
            ELSE LET keep_flags == rdp_iterative(ex.gps_points, epsilon)
                     kept == SelectIdx(keep_flags, 1)
                 IN Ok(kept)

simplify_gps_route(points, epsilon) ==
    IF f64_le_zero(epsilon) \/ is_nan(epsilon)
    THEN Err("InvalidEpsilon")
    ELSE LET ex == extract_gps_points(points)
             n == Len(ex.gps_points)
         IN IF n < 2 THEN Err("NoGpsCoordinates")
            ELSE IF n = 2 THEN Ok(<<ex.index_map[1], ex.index_map[2]>>)
            ELSE LET keep_flags == rdp_iterative(ex.gps_points, epsilon)
                     kept == SelectIdx(keep_flags, 1)
                 IN Ok([k \in 1..Len(kept) |-> ex.index_map[kept[k]]])

\* line 191: the distances of two interior points of one range start..end
LinePairs(points) ==
    { <<perpendicular_distance(points[q[2]], points[q[1]], points[q[4]]),
        perpendicular_distance(points[q[3]], points[q[1]], points[q[4]])>> :
        q \in {r \in (1..Len(points)) \X (1..Len(points))
                       \X (1..Len(points)) \X (1..Len(points)) :
                 /\ r[1] < r[2] /\ r[2] < r[4]
                 /\ r[1] < r[3] /\ r[3] < r[4]
                 /\ r[2] # r[3]} }
\* line 160: the distance of an interior point of a range and epsilon
EpsilonPairs(points, e) ==
    { <<perpendicular_distance(points[t[2]], points[t[1]], points[t[3]]), e>> :
        t \in {u \in (1..Len(points)) \X (1..Len(points)) \X (1..Len(points)) :
                 u[1] < u[2] /\ u[2] < u[3]} }
\* the comparisons a run of rdp_iterative on points with epsilon can make
Compared(points, epsilon) ==
    CASE epsilon.kind = "sqrt" -> LinePairs(points) \cup EpsilonPairs(points, epsilon.dist)
      [] epsilon.kind = "fin" /\ epsilon.v >= 0 ->
            LinePairs(points) \cup EpsilonPairs(points, epsilon)
      [] epsilon.kind = "pinf" -> LinePairs(points)
      [] OTHER -> {}
\* the distances of the comparisons that rounding decides
Rounded(verdict) ==
    {p[1] : p \in {q \in DOMAIN verdict : verdict[q] = "round"}}
    \cup {p[2] : p \in {q \in DOMAIN verdict : verdict[q] = "round"}}
\* the values the variable rounding can have in a run on points with epsilon:
\* of the comparisons that plain integers do not decide, those the exact
\* values make true and those that are true when the f64 values of the
\* distances that rounding decides are in some order, rank
Roundings(points, epsilon) ==
    UNION { { {p \in DOMAIN verdict :
                 \/ verdict[p] = "gt"
                 \/ verdict[p] = "round" /\ rank[p[1]] > rank[p[2]]} :
              rank \in [Rounded(verdict) -> 1..Cardinality(Rounded(verdict))] } :
            verdict \in
              { [p \in {q \in Compared(pts, epsilon) : DistFast(q[1], q[2]) = "slow"}
                   |-> DistCmpExact(p[1], p[2])] : pts \in {points} } }
\* the same for the samples simplify_gps_route is called with
SampleRoundings(samples, epsilon) ==
    Roundings(extract_gps_points(samples).gps_points, epsilon)

\* ------------------------------------------------------------------------
\* services/analytics_service.rs
\* ------------------------------------------------------------------------
DEFAULT_SIMPLIFICATION_TOLERANCE_METERS == 10

Segment(index, track, start_time, end_time, points) ==
    [index |-> index, track |-> track, start_time |-> start_time,
     end_time |-> end_time, points |-> points]

\* variant: a failed simplification keeps the raw points of the segment
simplify_segment_points_lenient(segment_points, simplify, tolerance) ==
    IF simplify /\ Len(segment_points) >= 2
    THEN LET tolerance_meters ==
                 unwrap_or(tolerance, Fin(DEFAULT_SIMPLIFICATION_TOLERANCE_METERS))
             indices == simplify_gps_route(segment_points, tolerance_meters)
         IN IF indices.ok
            THEN Ok([k \in 1..Len(indices.val) |-> segment_points[indices.val[k]]])
            ELSE Ok(segment_points)
    ELSE Ok(segment_points)

\* variant: the retained points are rebuilt from their coordinates alone
simplify_segment_points_coords_only(segment_points, simplify, tolerance) ==
    IF simplify /\ Len(segment_points) >= 2
    THEN LET tolerance_meters ==
                 unwrap_or(tolerance, Fin(DEFAULT_SIMPLIFICATION_TOLERANCE_METERS))
             indices == simplify_gps_route(segment_points, tolerance_meters)
         IN IF indices.ok
            THEN Ok([k \in 1..Len(indices.val) |->
                       [segment_points[indices.val[k]] EXCEPT !.heart_rate = None]])
            ELSE indices
    ELSE Ok(segment_points)

\* variant: the tolerance is validated for every segment (no len() >= 2 test)
simplify_segment_points_every_segment(segment_points, simplify, tolerance) ==
    IF simplify
    THEN LET tolerance_meters ==
                 unwrap_or(tolerance, Fin(DEFAULT_SIMPLIFICATION_TOLERANCE_METERS))
             indices == simplify_gps_route(segment_points, tolerance_meters)
         IN IF indices.ok
            THEN Ok([k \in 1..Len(indices.val) |-> segment_points[indices.val[k]]])
            ELSE indices
    ELSE Ok(segment_points)

\* variant: tolerance.unwrap_or(20.0)
simplify_segment_points_default_20(segment_points, simplify, tolerance) ==
    IF simplify /\ Len(segment_points) >= 2
    THEN LET tolerance_meters == unwrap_or(tolerance, Fin(20))
             indices == simplify_gps_route(segment_points, tolerance_meters)
         IN IF indices.ok
            THEN Ok([k \in 1..Len(indices.val) |-> segment_points[indices.val[k]]])
            ELSE indices
    ELSE Ok(segment_points)

\* the block repeated for every segment:
\*   if simplify && points.len() >= 2 { indices = simplify_gps_route(..)?; .. }
simplify_segment_points(segment_points, simplify, tolerance) ==
    IF simplify /\ Len(segment_points) >= 2
    THEN LET tolerance_meters ==
                 unwrap_or(tolerance, Fin(DEFAULT_SIMPLIFICATION_TOLERANCE_METERS))
             indices == simplify_gps_route(segment_points, tolerance_meters)
         IN IF indices.ok
            THEN Ok([k \in 1..Len(indices.val) |-> segment_points[indices.val[k]]])
            ELSE indices
    ELSE Ok(segment_points)

\* variant: the single segment is half-open (s.time < activity_end)
no_listens_segments_half_open(streams, activity_start, activity_end, simplify, tolerance) ==
    LET all_points == Filter(streams,
          [k \in 1..Len(streams) |->
             streams[k].time >= activity_start /\ streams[k].time < activity_end])
        pts == simplify_segment_points(all_points, simplify, tolerance)
    IN IF pts.ok
       THEN Ok(<< Segment(0, None, activity_start, activity_end, pts.val) >>)
       ELSE pts

\* variant: the single segment has no upper limit (s.time >= activity_start)
no_listens_segments_unbounded(streams, activity_start, activity_end, simplify, tolerance) ==
    LET all_points == Filter(streams,
          [k \in 1..Len(streams) |-> streams[k].time >= activity_start])
        pts == simplify_segment_points(all_points, simplify, tolerance)
    IN IF pts.ok
       THEN Ok(<< Segment(0, None, activity_start, activity_end, pts.val) >>)
       ELSE pts

\* if listens.is_empty() { .. return Ok(segments) }
no_listens_segments(streams, activity_start, activity_end, simplify, tolerance) ==
    LET all_points == Filter(streams,
          [k \in 1..Len(streams) |->
             streams[k].time >= activity_start /\ streams[k].time <= activity_end])
        pts == simplify_segment_points(all_points, simplify, tolerance)
    IN IF pts.ok
       THEN Ok(<< Segment(0, None, activity_start, activity_end, pts.val) >>)
       ELSE pts

\* variant: listens[0].0.played_at >= activity_start
pre_music_segments_at_start(streams, listens, activity_start, simplify, tolerance) ==
    IF listens[1].played_at >= activity_start
    THEN LET pre_music_points == Filter(streams,
          [k \in 1..Len(streams) |->
             streams[k].time >= activity_start /\ streams[k].time < listens[1].played_at])
             pts == simplify_segment_points(pre_music_points, simplify, tolerance)
         IN IF pts.ok
            THEN Ok(<< Segment(0, None, activity_start, listens[1].played_at, pts.val) >>)
            ELSE pts
    ELSE Ok(<<>>)

\* if listens[0].0.played_at > activity_start { .. segments.push(..) }
pre_music_segments(streams, listens, activity_start, simplify, tolerance) ==
    IF listens[1].played_at > activity_start
    THEN LET pre_music_points == Filter(streams,
          [k \in 1..Len(streams) |->
             streams[k].time >= activity_start /\ streams[k].time < listens[1].played_at])
             pts == simplify_segment_points(pre_music_points, simplify, tolerance)
         IN IF pts.ok
            THEN Ok(<< Segment(0, None, activity_start, listens[1].played_at, pts.val) >>)
            ELSE pts
    ELSE Ok(<<>>)

RECURSIVE music_segments_get_i(_, _, _, _, _, _, _)
\* variant: listens.get(i) in place of listens.get(i + 1), so that every
\* segment ends at its own listen
music_segments_get_i(streams, listens, activity_end, simplify, tolerance, i, segments) ==
    IF i > Len(listens) THEN Ok(segments)
    ELSE LET start_time == listens[i].played_at
             end_time == IF i <= Len(listens) THEN listens[i].played_at
                         ELSE activity_end
             segment_points == Filter(streams,
                   [k \in 1..Len(streams) |->
                      streams[k].time >= start_time /\ streams[k].time < end_time])
             pts == simplify_segment_points(segment_points, simplify, tolerance)
         IN IF pts.ok
            THEN music_segments_get_i(streams, listens, activity_end, simplify,
                     tolerance, i + 1,
                     Append(segments, Segment(Len(segments), listens[i].track,
                                              start_time, end_time, pts.val)))
            ELSE pts

RECURSIVE music_segments_to_end(_, _, _, _, _, _, _)
\* variant: every segment ends at activity_end
music_segments_to_end(streams, listens, activity_end, simplify, tolerance, i, segments) ==
    IF i > Len(listens) THEN Ok(segments)
    ELSE LET start_time == listens[i].played_at
             end_time == activity_end
             segment_points == Filter(streams,
                   [k \in 1..Len(streams) |->
                      streams[k].time >= start_time /\ streams[k].time < end_time])
             pts == simplify_segment_points(segment_points, simplify, tolerance)
         IN IF pts.ok
            THEN music_segments_to_end(streams, listens, activity_end, simplify,
                     tolerance, i + 1,
                     Append(segments, Segment(Len(segments), listens[i].track,
                                              start_time, end_time, pts.val)))
            ELSE pts

RECURSIVE music_segments_index_i(_, _, _, _, _, _, _)
\* variant: index: i, the position of the listen (0-based in the source)
music_segments_index_i(streams, listens, activity_end, simplify, tolerance, i, segments) ==
    IF i > Len(listens) THEN Ok(segments)
    ELSE LET start_time == listens[i].played_at
             end_time == IF i + 1 <= Len(listens) THEN listens[i + 1].played_at
                         ELSE activity_end
             segment_points == Filter(streams,
                   [k \in 1..Len(streams) |->
                      streams[k].time >= start_time /\ streams[k].time < end_time])
             pts == simplify_segment_points(segment_points, simplify, tolerance)
         IN IF pts.ok
            THEN music_segments_index_i(streams, listens, activity_end, simplify,
                     tolerance, i + 1,
                     Append(segments, Segment(i - 1, listens[i].track,
                                              start_time, end_time, pts.val)))
            ELSE pts

RECURSIVE music_segments_skip_unresolved(_, _, _, _, _, _, _)
\* variant: a listen without a track row is passed over (continue)
music_segments_skip_unresolved(streams, listens, activity_end, simplify, tolerance, i, segments) ==
    IF i > Len(listens) THEN Ok(segments)
    ELSE IF listens[i].track = None
    THEN music_segments_skip_unresolved(streams, listens, activity_end, simplify,
             tolerance, i + 1, segments)
    ELSE LET start_time == listens[i].played_at
             end_time == IF i + 1 <= Len(listens) THEN listens[i + 1].played_at
                         ELSE activity_end
             segment_points == Filter(streams,
                   [k \in 1..Len(streams) |->
                      streams[k].time >= start_time /\ streams[k].time < end_time])
             pts == simplify_segment_points(segment_points, simplify, tolerance)
         IN IF pts.ok
            THEN music_segments_skip_unresolved(streams, listens, activity_end,
                     simplify, tolerance, i + 1,
                     Append(segments, Segment(Len(segments), listens[i].track,
                                              start_time, end_time, pts.val)))
            ELSE pts

RECURSIVE music_segments(_, _, _, _, _, _, _)
\* for (i, (listen, track)) in listens.iter().enumerate() { .. }; i is 1-based
music_segments(streams, listens, activity_end, simplify, tolerance, i, segments) ==
    IF i > Len(listens) THEN Ok(segments)
    ELSE LET start_time == listens[i].played_at
             end_time == IF i + 1 <= Len(listens) THEN listens[i + 1].played_at
                         ELSE activity_end
             segment_points == Filter(streams,
                   [k \in 1..Len(streams) |->
                      streams[k].time >= start_time /\ streams[k].time < end_time])
             pts == simplify_segment_points(segment_points, simplify, tolerance)
         IN IF pts.ok
            THEN music_segments(streams, listens, activity_end, simplify, tolerance,
                     i + 1,
                     Append(segments, Segment(Len(segments), listens[i].track,
                                              start_time, end_time, pts.val)))
            ELSE pts

build_activity_segments(streams, listens, activity_start, activity_end, simplify, tolerance) ==
    IF listens = <<>>
    THEN no_listens_segments(streams, activity_start, activity_end, simplify, tolerance)
    ELSE LET pre == pre_music_segments(streams, listens, activity_start,
                                       simplify, tolerance)
         IN IF pre.ok
            THEN music_segments(streams, listens, activity_end, simplify, tolerance,
                                1, pre.val)
            ELSE pre

\* variant: a segment counts as with music when it holds points
calculate_stats_by_points(segments, original_points) ==
    LET total_segments == Len(segments)
        segments_with_music == Count([k \in 1..Len(segments) |-> segments[k].points # <<>>])
        simplified_points == SumLen(segments, 1)
    IN [total_segments |-> total_segments,
        segments_with_music |-> segments_with_music,
        segments_without_music |-> total_segments - segments_with_music,
        original_points |-> original_points,
        simplified_points |-> simplified_points,
        reduction_ratio |-> IF original_points > 0
                            THEN [num |-> simplified_points, den |-> original_points]
                            ELSE [num |-> 0, den |-> 1]]

\* variant: the quotient is taken without the test original_points > 0
calculate_stats_unguarded(segments, original_points) ==
    LET total_segments == Len(segments)
        segments_with_music == Count([k \in 1..Len(segments) |-> is_some(segments[k].track)])
        simplified_points == SumLen(segments, 1)
    IN [total_segments |-> total_segments,
        segments_with_music |-> segments_with_music,
        segments_without_music |-> total_segments - segments_with_music,
        original_points |-> original_points,
        simplified_points |-> simplified_points,
        reduction_ratio |-> [num |-> simplified_points, den |-> original_points]]

\* reduction_ratio is the f32 quotient num/den, carried as the pair
calculate_stats(segments, original_points) ==
    LET total_segments == Len(segments)
        segments_with_music == Count([k \in 1..Len(segments) |-> is_some(segments[k].track)])
        simplified_points == SumLen(segments, 1)
    IN [total_segments |-> total_segments,
        segments_with_music |-> segments_with_music,
        segments_without_music |-> total_segments - segments_with_music,
        original_points |-> original_points,
        simplified_points |-> simplified_points,
        reduction_ratio |-> IF original_points > 0
                            THEN [num |-> simplified_points, den |-> original_points]
                            ELSE [num |-> 0, den |-> 1]]

\* ------------------------------------------------------------------------
\* Input domains
\* ------------------------------------------------------------------------
Times == 0..MaxTime
\* the activity row: start_time, and end = start_time + elapsed_time
ActivityStart == 1
ActivityElapsed == MaxTime - 2
ActivityEnd == ActivityStart + ActivityElapsed

\* the runner's position at second t: on the equator, moving over
\* MaxCoord + 1 positions 2^-13 degree of longitude apart
Position(t) == GpsPoint(0, t % (MaxCoord + 1))

Sample(time, coord, k) ==
    [time |-> time,
     latitude |-> IF is_some(coord) THEN Some(unwrap(coord).lat) ELSE None,
     longitude |-> IF is_some(coord) THEN Some(unwrap(coord).lng) ELSE None,
     heart_rate |-> Some(100 + k)]

\* activity_stream has primary key (activity_id, time) and is read ordered by
\* time: timestamps of one activity are strictly ascending.  The recorder
\* samples once per second: a stream is a run of consecutive seconds that may
\* begin before the activity start and end after the activity end; a sample
\* taken without a GPS fix has no coordinates
StreamsOfLen(n) ==
    { [k \in 1..n |-> Sample(t0 + k - 1,
                             IF fix[k] THEN Some(Position(t0 + k - 1)) ELSE None, k)] :
        t0 \in {t \in Times : t + n - 1 <= MaxTime},
        fix \in [1..n -> BOOLEAN] }
Streams == UNION {StreamsOfLen(n) : n \in 0..MaxSamples}

\* the k-th listen of a list is of track k
TrackOfRow(k) == k
Listen(played_at, track) == [played_at |-> played_at, track |-> track]

\* (listen, Option<track>) pairs ordered by played_at ascending, over T; at
\* most one listen (the one at position missing) has no track row
ListensOfLen(T, n) ==
    { [k \in 1..n |-> Listen(ts[k], IF k = missing THEN None ELSE Some(TrackOfRow(k)))] :
        ts \in {f \in [1..n -> T] : \A i \in 1..(n - 1) : f[i] <= f[i + 1]},
        missing \in 0..n }
AscendingListens == UNION {ListensOfLen(Times, n) : n \in 0..MaxListens}
WindowListens == UNION {ListensOfLen(ActivityStart..ActivityEnd, n) : n \in 0..MaxListens}

Tolerances == {None, Some(Fin(20)), Some(NaN)}

\* inputs of simplify_gps_route: samples on a grid of GridMax + 1 parallels
\* and two meridians, or without coordinates, one per second
GridCoords == {None} \cup {Some(GpsPoint(y, x)) : y \in 0..GridMax, x \in {0, 1}}
Route(n, cs) == [k \in 1..n |-> Sample(k, cs[k], k)]
Epsilons == {Fin(-1), Fin(0), Fin(5), Fin(10), Fin(20), NaN, PosInf, NegInf}

\* listen rows of the requesting user as the database holds them: ascending
\* played_at, every track_id resolvable (foreign key, not null); the unique
\* index (user_id, track_id, played_at) lets two listens share a timestamp only
\* with different tracks
DbListensOfLen(T, n) ==
    { [k \in 1..n |-> [played_at |-> ts[k], track_id |-> TrackOfRow(k)]] :
        ts \in {f \in [1..n -> T] : \A i \in 1..(n - 1) : f[i] <= f[i + 1]} }
DbListens == UNION {DbListensOfLen(Times, n) : n \in 0..MaxListens}
\* what the listening-history API returns for [start, end]: scrobbles in
\* the window at distinct seconds
RemoteListens ==
    UNION { {f \in [1..n -> ActivityStart..ActivityEnd] :
                \A i \in 1..(n - 1) : f[i] < f[i + 1]} : n \in 0..MaxListens }

\* the stream rows of the requested activity: the recording begins with the
\* activity, and the receiver has a fix for all of it or for none of it, the
\* last sample excepted
DbStreams ==
    UNION {{r \in StreamsOfLen(n) :
              n = 0 \/ /\ r[1].time = ActivityStart
                       /\ \A k \in 2..(n - 1) : r[k].latitude = r[1].latitude} :
           n \in 0..MaxSamples}
\* the track of the listens that other requests create and of the tracks
\* they delete
TrackIds == {TrackOfRow(1)}

Requester == "u1"
Users == {"u1", "u2"}
DbActivities == {None} \cup
    { Some([user_id |-> u, start_time |-> ActivityStart,
            elapsed_time |-> ActivityElapsed]) : u \in Users }
\* CreateActivityDto of create_activity and upsert_activity: the recorded
\* activity, or one that starts later and ends earlier
CreateActivityDtos ==
    { [user_id |-> u, start_time |-> t[1], elapsed_time |-> t[2]] :
        u \in Users,
        t \in {<<ActivityStart, ActivityElapsed>>,
               <<ActivityStart + 1, ActivityElapsed - 2>>} }
\* the user table's row of the requester, as get_user_by_id finds it
DbUsers == {None, Some([lastfm_username |-> None]),
            Some([lastfm_username |-> Some("name")])}

Request(user, id_ok, simplify, tolerance) ==
    [user |-> user, id_ok |-> id_ok, simplify |-> simplify, tolerance |-> tolerance]
\* query parameters: simplify: Option<bool>, tolerance: Option<f64>
Requests ==
    { Request(Some(Requester), TRUE, sp, tol) :
        sp \in {None, Some(FALSE)}, tol \in {None, Some(NaN)} }
    \cup {Request(None, TRUE, None, None), Request(Some(Requester), FALSE, None, None)}

\* ------------------------------------------------------------------------
\* State
\* ------------------------------------------------------------------------
VARIABLES
    call, ret,          \* a direct call of one function and what it returned
    db_activity,        \* activity table: the row of the requested id, if any
    db_listens,         \* listen table: rows of the requester, by played_at
    pc,                 \* position of the request in handler and service
    req,                \* the request being served
    activity,           \* get_activity_music: let activity
    listens,            \* get_activity_music: let listens
    streams,            \* get_activity_music: let streams
    listens_with_tracks,\* get_activity_music: let listens_with_tracks
    calls,              \* collaborators called so far, in order
    svc,                \* what analytics_service::get_activity_music returned
    response,           \* (StatusCode, Json) the handler returned
    rdp,                \* rdp_iterative: let mut keep, let mut stack, and the
                        \* ranges pushed so far
    sync,               \* sync_lastfm_for_time_range: lastfm_tracks, listen_models
    other               \* the call another request makes: ready, what its
                        \* lookup found, done

vars == <<call, rounding, ret, db_activity, db_listens, pc, req, activity,
          listens, streams, listens_with_tracks, calls, svc, response, rdp,
          sync, other>>
reqVars == <<db_activity, db_listens, pc, req, activity,
             listens, streams, listens_with_tracks, calls, svc, response, rdp,
             sync, other>>

Pending == [done |-> FALSE, res |-> Err("pending")]
Returned(r) == [done |-> TRUE, res |-> r]

NoCall == [fn |-> "none"]
NoRdp == [keep |-> <<>>, stack |-> <<>>, pushed |-> <<>>]
NoSync == [lastfm_tracks |-> <<>>, listen_models |-> <<>>]
NoRequest == Request(None, FALSE, None, None)
NoOther == [at |-> "none"]
OtherReady == [at |-> "ready"]
OtherDone == [at |-> "done"]
NoResponse == [status |-> 0, error |-> "none", has_gps |-> FALSE,
               segments |-> <<>>, stats |-> calculate_stats(<<>>, 0)]

\* ------------------------------------------------------------------------
\* Direct calls of build_activity_segments (as the unit tests make them)
\* ------------------------------------------------------------------------
RequestIdle ==
    /\ db_activity = None /\ db_listens = <<>>
    /\ pc = "idle" /\ req = NoRequest /\ activity = None
    /\ listens = <<>> /\ streams = <<>> /\ listens_with_tracks = <<>>
    /\ calls = <<>> /\ svc = Pending /\ response = NoResponse
    /\ rdp = NoRdp /\ sync = NoSync /\ other = NoOther

InitBuild ==
    /\ call \in [fn : {"build_activity_segments"},
                 streams : Streams,
                 listens : AscendingListens,
                 activity_start : {ActivityStart},
                 activity_end : {ActivityEnd},
                 simplify : BOOLEAN,
                 tolerance : Tolerances]
    /\ rounding \in IF call.simplify
                    THEN SampleRoundings(call.streams,
                             unwrap_or(call.tolerance,
                                       Fin(DEFAULT_SIMPLIFICATION_TOLERANCE_METERS)))
                    ELSE {{}}
    /\ ret = Pending
    /\ RequestIdle

CallBuild ==
    /\ call.fn = "build_activity_segments"
    /\ ~ret.done
    /\ ret' = Returned(build_activity_segments(call.streams, call.listens,
                  call.activity_start, call.activity_end,
                  call.simplify, call.tolerance))
    /\ UNCHANGED <<call, rounding, reqVars>>

NextBuild == CallBuild

SpecBuild == InitBuild /\ [][NextBuild]_vars

\* ------------------------------------------------------------------------
\* One request GET /api/activities/{id}/music
\* api/src/handlers/music.rs and analytics_service::get_activity_music,
\* and the other requests that write the tables while it awaits a query
\* ------------------------------------------------------------------------
\* the Display text of the sea_orm::DbErr of a failed query
DB_ERR == "DbErr"
\* the Display text of IntegrationError::Other(msg)
INTEGRATION_ERR == "Integration error: {msg}"

Init ==
    /\ call = NoCall /\ rounding = {} /\ ret = Pending
    /\ db_activity \in DbActivities
    /\ db_listens \in DbListens
    /\ pc = "start" /\ req = NoRequest /\ activity = None
    /\ listens = <<>> /\ streams = <<>> /\ listens_with_tracks = <<>>
    /\ calls = <<>> /\ svc = Pending /\ response = NoResponse
    /\ rdp = NoRdp /\ sync = NoSync /\ other = OtherReady

ErrorResponse(status, e) == [NoResponse EXCEPT !.status = status, !.error = e]

\* handler entry: session user, activity id parsing
HandlerStart ==
    /\ pc = "start"
    /\ \E r \in Requests :
         /\ req' = r
         /\ IF r.user = None
            THEN pc' = "done" /\ response' = ErrorResponse(401, "Unauthorized")
            ELSE IF ~r.id_ok
            THEN pc' = "done"
                 /\ response' = ErrorResponse(400, "Invalid activity ID format")
            ELSE pc' = "get_activity" /\ UNCHANGED response
    /\ UNCHANGED <<call, rounding, ret, rdp, db_activity, db_listens, activity, listens,
                   streams, listens_with_tracks, calls, svc, sync, other>>

\* segment.points.into_iter().filter_map(both coordinates => GpsPointResponse)
GpsPointResponses(points) ==
    LET with_coords == Filter(points, [k \in 1..Len(points) |-> has_coords(points[k])])
    IN [k \in 1..Len(with_coords) |->
          [time |-> with_coords[k].time,
           latitude |-> unwrap(with_coords[k].latitude),
           longitude |-> unwrap(with_coords[k].longitude),
           heart_rate |-> with_coords[k].heart_rate]]

SegmentResponse(segment) ==
    [index |-> segment.index, track |-> segment.track,
     start_time |-> segment.start_time, end_time |-> segment.end_time,
     points |-> GpsPointResponses(segment.points)]

\* variant: has_gps looks at the points of the service's segments
ActivityMusicResponse_unfiltered(result) ==
    IF result.ok
    THEN LET segment_responses ==
                 [k \in 1..Len(result.val.segments) |->
                     SegmentResponse(result.val.segments[k])]
         IN [status |-> 200, error |-> "none",
             has_gps |-> \E k \in 1..Len(result.val.segments) :
                             result.val.segments[k].points # <<>>,
             segments |-> segment_responses,
             stats |-> result.val.stats]
    ELSE ErrorResponse(400, result.err)

\* the match of the handler on the service result
ActivityMusicResponse(result) ==
    IF result.ok
    THEN LET segment_responses ==
                 [k \in 1..Len(result.val.segments) |->
                     SegmentResponse(result.val.segments[k])]
         IN [status |-> 200, error |-> "none",
             has_gps |-> \E k \in 1..Len(segment_responses) :
                             segment_responses[k].points # <<>>,
             segments |-> segment_responses,
             stats |-> result.val.stats]
    ELSE ErrorResponse(400, result.err)

\* get_activity_music returns result; the handler, which awaited it, builds
\* the response from it without suspending again
ServiceReturns(result) == /\ svc' = Returned(result)
                          /\ response' = ActivityMusicResponse(result)
                          /\ pc' = "done"

ServiceFails(e) == ServiceReturns(Err(e))

\* variant: the test activity.user_id != user_id is left out
GetActivity_no_owner_check ==
    /\ pc = "get_activity"
    /\ calls' = Append(calls, "get_activity_by_id")
    /\ \/ ServiceFails(DB_ERR) /\ UNCHANGED activity
       \/ IF db_activity = None
          THEN ServiceFails("Activity not found") /\ UNCHANGED activity
          ELSE activity' = db_activity /\ pc' = "get_listens" /\ UNCHANGED <<svc, response>>
    /\ UNCHANGED <<call, rounding, ret, rdp, db_activity, db_listens, req, listens,
                   streams, listens_with_tracks, sync, other>>

\* get_activity_by_id(..).await?.ok_or(..)?; ownership check
GetActivity ==
    /\ pc = "get_activity"
    /\ calls' = Append(calls, "get_activity_by_id")
    /\ \/ ServiceFails(DB_ERR) /\ UNCHANGED activity
       \/ IF db_activity = None
          THEN ServiceFails("Activity not found") /\ UNCHANGED activity
          ELSE IF unwrap(db_activity).user_id # unwrap(req.user)
          THEN ServiceFails("Activity does not belong to the user")
               /\ activity' = db_activity
          ELSE activity' = db_activity /\ pc' = "get_listens" /\ UNCHANGED <<svc, response>>
    /\ UNCHANGED <<call, rounding, ret, rdp, db_activity, db_listens, req, listens,
                   streams, listens_with_tracks, sync, other>>

end_time_of(a) == a.start_time + a.elapsed_time

\* filter(played_at >= lo).filter(played_at <= hi) on the requester's rows
InRange(rows, lo, hi) ==
    Filter(rows, [k \in 1..Len(rows) |-> rows[k].played_at >= lo /\ rows[k].played_at <= hi])

\* variant: the synchronisation is entered whatever the lookup returned
GetListens_always_sync ==
    /\ pc = "get_listens"
    /\ calls' = Append(calls, "get_listens_by_user_time_range")
    /\ \/ ServiceFails(DB_ERR) /\ UNCHANGED listens
       \/ /\ listens' = InRange(db_listens, unwrap(activity).start_time,
                                end_time_of(unwrap(activity)))
          /\ pc' = "get_user"
          /\ UNCHANGED <<svc, response>>
    /\ UNCHANGED <<call, rounding, ret, rdp, db_activity, db_listens, req, activity,
                   streams, listens_with_tracks, sync, other>>

\* get_listens_by_user_time_range(..).await?; if listens.is_empty() {..}
GetListens ==
    /\ pc = "get_listens"
    /\ calls' = Append(calls, "get_listens_by_user_time_range")
    /\ \/ ServiceFails(DB_ERR) /\ UNCHANGED listens
       \/ /\ listens' = InRange(db_listens, unwrap(activity).start_time,
                                end_time_of(unwrap(activity)))
          /\ pc' = IF listens' = <<>> THEN "get_user" ELSE "get_streams"
          /\ UNCHANGED <<svc, response>>
    /\ UNCHANGED <<call, rounding, ret, rdp, db_activity, db_listens, req, activity,
                   streams, listens_with_tracks, sync, other>>

\* get_user_by_id(..).await?.ok_or(..)?; lastfm_username.ok_or(..)?
GetUser ==
    /\ pc = "get_user"
    /\ calls' = Append(calls, "get_user_by_id")
    /\ \/ ServiceFails(DB_ERR)
       \/ \E user \in DbUsers :
            IF user = None
            THEN ServiceFails("User not found")
            ELSE IF unwrap(user).lastfm_username = None
            THEN ServiceFails("User does not have a Last.fm username configured")
            ELSE pc' = "sync" /\ UNCHANGED <<svc, response>>
    /\ UNCHANGED <<call, rounding, ret, rdp, db_activity, db_listens, req, activity, listens,
                   streams, listens_with_tracks, sync, other>>

RECURSIVE MergeListens(_, _)
\* rows of a and b by played_at ascending (the table is read ordered)
MergeListens(a, b) ==
    IF a = <<>> THEN b
    ELSE IF b = <<>> THEN a
    ELSE IF a[1].played_at <= b[1].played_at
         THEN <<a[1]>> \o MergeListens(Tail(a), b)
         ELSE <<b[1]>> \o MergeListens(a, Tail(b))

\* the unique index idx-listen-unique-event (user_id, track_id, played_at)
\* rejects the insertion of new_rows into rows
UniqueViolation(rows, new_rows) ==
    \E i \in 1..Len(rows), j \in 1..Len(new_rows) :
        /\ rows[i].played_at = new_rows[j].played_at
        /\ rows[i].track_id = new_rows[j].track_id

\* sync_lastfm_for_time_range, first await: the listening-history API fails,
\* or returns no scrobble (Ok(Vec::new()) at once), or returns scrobbles
GetTracksInTimeRange ==
    /\ pc = "sync"
    /\ calls' = Append(calls, "sync_lastfm_for_time_range")
    /\ \/ ServiceFails(INTEGRATION_ERR) /\ UNCHANGED sync
       \/ \E remote \in RemoteListens :
            /\ Len(db_listens) + Len(remote) <= MaxListens
            /\ IF remote = <<>>
               THEN pc' = "get_streams" /\ UNCHANGED sync
               ELSE /\ pc' = "upsert_track"
                    /\ sync' = [lastfm_tracks |-> remote, listen_models |-> <<>>]
            /\ UNCHANGED <<svc, response>>
    /\ UNCHANGED <<call, rounding, ret, rdp, db_activity, db_listens, req, activity, listens,
                   streams, listens_with_tracks, other>>

\* let saved_track = ..; listen_models.push(..) and the next iteration of
\* for lastfm_track in lastfm_tracks, or the end of the loop
PushListen ==
    \E k \in {Len(sync.listen_models) + 1} :
        /\ sync' = [sync EXCEPT !.listen_models =
                      Append(@, [played_at |-> sync.lastfm_tracks[k],
                                 track_id |-> TrackOfRow(k)])]
        /\ pc' = IF k = Len(sync.lastfm_tracks) THEN "batch_create_listens"
                 ELSE "upsert_track"
        /\ UNCHANGED <<svc, response>>

\* upsert_track, first await: get_track_by_metadata(..).await? fails, finds
\* the track (Ok(existing_track)), or finds none
GetTrackByMetadata ==
    /\ pc = "upsert_track"
    /\ \/ ServiceFails(DB_ERR) /\ sync' = NoSync
       \/ PushListen
       \/ pc' = "create_track" /\ UNCHANGED <<sync, svc, response>>
    /\ UNCHANGED <<call, rounding, ret, rdp, db_activity, db_listens, req, activity, listens,
                   streams, listens_with_tracks, calls, other>>

\* upsert_track, second await: create_track(db, dto).await, the insert of
\* the new track
CreateTrack ==
    /\ pc = "create_track"
    /\ \/ ServiceFails(DB_ERR) /\ sync' = NoSync
       \/ PushListen
    /\ UNCHANGED <<call, rounding, ret, rdp, db_activity, db_listens, req, activity, listens,
                   streams, listens_with_tracks, calls, other>>

\* batch_create_listens(..).await?: one insert_many without on_conflict, all
\* rows or none
BatchCreateListens ==
    /\ pc = "batch_create_listens"
    /\ \/ ServiceFails(DB_ERR) /\ UNCHANGED db_listens
       \/ /\ ~UniqueViolation(db_listens, sync.listen_models)
          /\ db_listens' = MergeListens(db_listens, sync.listen_models)
          /\ pc' = "saved_listens"
          /\ UNCHANGED <<svc, response>>
    /\ sync' = NoSync
    /\ UNCHANGED <<call, rounding, ret, rdp, db_activity, req, activity, listens,
                   streams, listens_with_tracks, calls, other>>

\* let saved_listens = get_listens_by_user_time_range(..).await?; Ok(saved_listens),
\* which get_activity_music drops
SavedListens ==
    /\ pc = "saved_listens"
    /\ \/ ServiceFails(DB_ERR)
       \/ pc' = "get_streams" /\ UNCHANGED <<svc, response>>
    /\ UNCHANGED <<call, rounding, ret, rdp, db_activity, db_listens, req, activity, listens,
                   streams, listens_with_tracks, calls, sync, other>>

\* the comparisons of the request's simplify_gps_route calls
RequestRoundings(rows) ==
    IF unwrap_or(req.simplify, TRUE)
    THEN SampleRoundings(rows, unwrap_or(req.tolerance,
                                         Fin(DEFAULT_SIMPLIFICATION_TOLERANCE_METERS)))
    ELSE {{}}

\* get_activity_streams(..).await?: the stream table's rows of the activity
GetStreams ==
    /\ pc = "get_streams"
    /\ calls' = Append(calls, "get_activity_streams")
    /\ \/ ServiceFails(DB_ERR) /\ UNCHANGED <<streams, rounding>>
       \/ /\ \E rows \in DbStreams :
               /\ streams' = rows
               /\ rounding' \in RequestRoundings(rows)
          /\ pc' = "find_listens"
          /\ UNCHANGED <<svc, response>>
    /\ UNCHANGED <<call, ret, rdp, db_activity, db_listens, req, activity, listens,
                   listens_with_tracks, sync, other>>

\* streams.iter().filter(has coordinates, inside [start, end]).count()
original_gps_points(rows, activity_start_utc, end_time_utc) ==
    Count(
          [k \in 1..Len(rows) |->
             /\ is_some(rows[k].latitude)
             /\ is_some(rows[k].longitude)
             /\ rows[k].time >= activity_start_utc
             /\ rows[k].time <= end_time_utc])

\* Ok(ActivityMusicResponse { segments, stats }) of get_activity_music, or the
\* error build_activity_segments(..)? propagated
get_activity_music_result(segments, original) ==
    IF segments.ok
    THEN Ok([segments |-> segments.val,
             stats |-> calculate_stats(segments.val, original)])
    ELSE segments

\* the synchronous tail of get_activity_music on the rows of its last query:
\* count, build, stats, return
Compute(rows) ==
    \E original \in {original_gps_points(streams, unwrap(activity).start_time,
                                          end_time_of(unwrap(activity)))},
       segments \in {build_activity_segments(streams, rows,
                         unwrap(activity).start_time, end_time_of(unwrap(activity)),
                         unwrap_or(req.simplify, TRUE), req.tolerance)} :
      ServiceReturns(get_activity_music_result(segments, original))

\* Listen::find()..find_also_related(Track).all(db).await?, and from there to
\* the return without another await
FindListensWithTracks ==
    /\ pc = "find_listens"
    /\ calls' = Append(calls, "find_listens_with_tracks")
    /\ \/ ServiceFails(DB_ERR) /\ UNCHANGED listens_with_tracks
       \/ /\ listens_with_tracks' =
               LET rows == InRange(db_listens, unwrap(activity).start_time,
                                   end_time_of(unwrap(activity)))
               IN [k \in 1..Len(rows) |->
                      Listen(rows[k].played_at, Some(rows[k].track_id))]
          /\ Compute(listens_with_tracks')
    /\ UNCHANGED <<call, rounding, ret, rdp, db_activity, db_listens, req, activity, listens,
                   streams, sync, other>>

\* ------------------------------------------------------------------------
\* Another request, running while this one is suspended in an await, makes
\* one call of a repository function that writes the listen or the activity
\* table.  A function of one await is one step.  A function that looks its
\* row up and then writes is two steps, and this request can run between
\* them: other holds what the lookup found.  A call that fails (DbErr, or
\* RecordNotFound after the lookup) writes nothing and is not a step.  After
\* its last query the request reads no table any more.
\* ------------------------------------------------------------------------
Awaiting == pc \in {"get_activity", "get_listens", "get_user", "sync",
                    "upsert_track", "create_track", "batch_create_listens",
                    "saved_listens", "get_streams", "find_listens"}

OtherCalls == Awaiting /\ other = OtherReady /\ other' = OtherDone
\* the first await of a call of fn, and its second
OtherFinds(fn, found) == /\ Awaiting /\ other = OtherReady
                         /\ other' = [at |-> fn, found |-> found]
OtherWrites(fn) == Awaiting /\ other.at = fn /\ other' = OtherDone

\* create_listen(db, dto) for the requester: active_model.insert
CreateListen ==
    /\ OtherCalls
    /\ Len(db_listens) + Len(sync.lastfm_tracks) < MaxListens
    /\ \E t \in Times, track \in TrackIds :
         \E row \in {[played_at |-> t, track_id |-> track]} :
            /\ ~UniqueViolation(db_listens, <<row>>)
            /\ db_listens' = MergeListens(db_listens, <<row>>)
    /\ UNCHANGED <<call, rounding, ret, rdp, db_activity, pc, req, activity, listens,
                   streams, listens_with_tracks, calls, svc, response, sync>>

\* batch_create_listens(db, listens) of another request's synchronisation
\* of the same window: the scrobbles it fetched, in one insert_many
OtherBatchCreateListens ==
    /\ OtherCalls
    /\ \E remote \in RemoteListens :
         \E rows \in {[k \in 1..Len(remote) |->
                          [played_at |-> remote[k], track_id |-> TrackOfRow(k)]]} :
            /\ Len(remote) >= 2
            /\ Len(db_listens) + Len(sync.lastfm_tracks) + Len(remote) <= MaxListens
            /\ ~UniqueViolation(db_listens, rows)
            /\ db_listens' = MergeListens(db_listens, rows)
    /\ UNCHANGED <<call, rounding, ret, rdp, db_activity, pc, req, activity, listens,
                   streams, listens_with_tracks, calls, svc, response, sync>>

\* delete_listen(db, id), first await: get_listen_by_id finds a row of the
\* requester
GetListenById ==
    /\ \E k \in 1..Len(db_listens) : OtherFinds("delete_listen", db_listens[k])
    /\ UNCHANGED <<call, rounding, ret, rdp, db_activity, db_listens, pc, req, activity,
                   listens, streams, listens_with_tracks, calls, svc, response, sync>>

\* delete_listen, second await: active_model.delete(db) of the row found
DeleteListen ==
    /\ OtherWrites("delete_listen")
    /\ db_listens' = Filter(db_listens, [i \in 1..Len(db_listens) |->
                                             db_listens[i] # other.found])
    /\ UNCHANGED <<call, rounding, ret, rdp, db_activity, pc, req, activity, listens,
                   streams, listens_with_tracks, calls, svc, response, sync>>

\* delete_listens_by_user_time_range(db, user_id, start_time, end_time)
DeleteListensByUserTimeRange ==
    /\ OtherCalls
    /\ \E start_time \in Times, end_time \in Times :
         /\ InRange(db_listens, start_time, end_time) # <<>>
         /\ db_listens' = Filter(db_listens, [i \in 1..Len(db_listens) |->
                              ~(/\ db_listens[i].played_at >= start_time
                                /\ db_listens[i].played_at <= end_time)])
    /\ UNCHANGED <<call, rounding, ret, rdp, db_activity, pc, req, activity, listens,
                   streams, listens_with_tracks, calls, svc, response, sync>>

\* delete_track(db, id), first await: get_track_by_id finds the track
GetTrackById ==
    /\ \E track \in TrackIds : OtherFinds("delete_track", track)
    /\ UNCHANGED <<call, rounding, ret, rdp, db_activity, db_listens, pc, req, activity,
                   listens, streams, listens_with_tracks, calls, svc, response, sync>>

\* delete_track, second await: active_model.delete(db); the foreign key of
\* listen.track_id cascades
DeleteTrack ==
    /\ OtherWrites("delete_track")
    /\ db_listens' = Filter(db_listens, [i \in 1..Len(db_listens) |->
                                             db_listens[i].track_id # other.found])
    /\ UNCHANGED <<call, rounding, ret, rdp, db_activity, pc, req, activity, listens,
                   streams, listens_with_tracks, calls, svc, response, sync>>

\* create_activity(db, dto): the row of the requested id comes to exist
CreateActivity ==
    /\ OtherCalls
    /\ db_activity = None
    /\ \E dto \in CreateActivityDtos : db_activity' = Some(dto)
    /\ UNCHANGED <<call, rounding, ret, rdp, db_listens, pc, req, activity, listens,
                   streams, listens_with_tracks, calls, svc, response, sync>>

\* upsert_activity(db, dto), first await: get_activity_by_external_id(db,
\* dto.user_id, dto.external_id) finds the row of the dto's user, or none
GetActivityByExternalId ==
    /\ \E dto \in CreateActivityDtos :
         /\ db_activity # None => unwrap(db_activity).user_id = dto.user_id
         /\ OtherFinds("upsert_activity", [existing |-> db_activity, dto |-> dto])
    /\ UNCHANGED <<call, rounding, ret, rdp, db_activity, db_listens, pc, req, activity,
                   listens, streams, listens_with_tracks, calls, svc, response, sync>>

\* upsert_activity, second await: active_model.update(db) of the row found,
\* which keeps id and user_id and takes the times of the dto, or
\* create_activity(db, dto)
UpsertActivity ==
    /\ OtherWrites("upsert_activity")
    /\ db_activity' =
          IF other.found.existing = None
          THEN Some(other.found.dto)
          ELSE Some([unwrap(other.found.existing) EXCEPT
                        !.start_time = other.found.dto.start_time,
                        !.elapsed_time = other.found.dto.elapsed_time])
    /\ UNCHANGED <<call, rounding, ret, rdp, db_listens, pc, req, activity, listens,
                   streams, listens_with_tracks, calls, svc, response, sync>>

\* delete_activity(db, id), first await: get_activity_by_id finds the row
OtherGetActivityById ==
    /\ db_activity # None
    /\ OtherFinds("delete_activity", unwrap(db_activity))
    /\ UNCHANGED <<call, rounding, ret, rdp, db_activity, db_listens, pc, req, activity,
                   listens, streams, listens_with_tracks, calls, svc, response, sync>>

\* delete_activity, second await: active_model.delete(db)
DeleteActivity ==
    /\ OtherWrites("delete_activity")
    /\ db_activity' = None
    /\ UNCHANGED <<call, rounding, ret, rdp, db_listens, pc, req, activity, listens,
                   streams, listens_with_tracks, calls, svc, response, sync>>

\* delete_user(db, id), first await: get_user_by_id finds the user
OtherGetUserById ==
    /\ \E u \in Users : OtherFinds("delete_user", u)
    /\ UNCHANGED <<call, rounding, ret, rdp, db_activity, db_listens, pc, req, activity,
                   listens, streams, listens_with_tracks, calls, svc, response, sync>>

\* delete_user, second await: active_model.delete(db); the foreign keys of
\* listen.user_id and activity.user_id cascade
DeleteUser ==
    /\ OtherWrites("delete_user")
    /\ db_listens' = IF other.found = Requester THEN <<>> ELSE db_listens
    /\ db_activity' = IF db_activity # None
                          /\ unwrap(db_activity).user_id = other.found
                       THEN None ELSE db_activity
    /\ UNCHANGED <<call, rounding, ret, rdp, pc, req, activity, listens,
                   streams, listens_with_tracks, calls, svc, response, sync>>

Next ==
    \/ HandlerStart
    \/ GetActivity
    \/ GetListens
    \/ GetUser
    \/ GetTracksInTimeRange
    \/ GetTrackByMetadata
    \/ CreateTrack
    \/ BatchCreateListens
    \/ SavedListens
    \/ GetStreams
    \/ FindListensWithTracks
    \/ CreateListen
    \/ OtherBatchCreateListens
    \/ GetListenById
    \/ DeleteListen
    \/ DeleteListensByUserTimeRange
    \/ GetTrackById
    \/ DeleteTrack
    \/ CreateActivity
    \/ GetActivityByExternalId
    \/ UpsertActivity
    \/ OtherGetActivityById
    \/ DeleteActivity
    \/ OtherGetUserById
    \/ DeleteUser

Spec == Init /\ [][Next]_vars

\* ------------------------------------------------------------------------
\* Direct calls of simplify_gps_route
\* ------------------------------------------------------------------------
InitSimplify ==
    /\ \E n \in 0..MaxPoints, epsilon \in Epsilons :
         \E cs \in [1..n -> GridCoords] :
            call = [fn |-> "simplify_gps_route", points |-> Route(n, cs),
                    epsilon |-> epsilon]
    /\ rounding \in SampleRoundings(call.points, call.epsilon)
    /\ ret = Pending
    /\ RequestIdle

CallSimplify ==
    /\ call.fn = "simplify_gps_route"
    /\ ~ret.done
    /\ ret' = Returned(simplify_gps_route(call.points, call.epsilon))
    /\ UNCHANGED <<call, rounding, reqVars>>

NextSimplify == CallSimplify

SpecSimplify == InitSimplify /\ [][NextSimplify]_vars

\* ------------------------------------------------------------------------
\* Direct calls of calculate_stats, and of the synchronous tail of
\* get_activity_music (count, build, stats) on given streams and listens
\* ------------------------------------------------------------------------
\* the samples a segment of the statistics calls holds: m consecutive seconds
SegmentPointsOfLen(m) ==
    [i \in 1..m |-> Sample(ActivityStart + i - 1, Some(Position(ActivityStart + i - 1)), i)]

\* lists of n segments, each with or without a track and with 0..MaxCoord+1 points
SegmentsOfLen(n) ==
    { [k \in 1..n |-> Segment(k - 1,
                              IF with_track[k] THEN Some(TrackOfRow(k)) ELSE None,
                              ActivityStart, ActivityEnd,
                              SegmentPointsOfLen(num_points[k]))] :
        with_track \in [1..n -> BOOLEAN],
        num_points \in [1..n -> 0..(MaxCoord + 1)] }

InitStats ==
    /\ \/ \E n \in 0..(MaxListens + 1), original_points \in 0..MaxSamples :
            \E segments \in SegmentsOfLen(n) :
               call = [fn |-> "calculate_stats", segments |-> segments,
                       original_points |-> original_points]
       \/ \E s \in Streams, l \in AscendingListens, simplify \in BOOLEAN :
            call = [fn |-> "get_activity_music", streams |-> s,
                    listens_with_tracks |-> l,
                    activity_start |-> ActivityStart, activity_end |-> ActivityEnd,
                    simplify |-> simplify, tolerance |-> None]
    /\ rounding \in IF call.fn = "get_activity_music" /\ call.simplify
                    THEN SampleRoundings(call.streams,
                             Fin(DEFAULT_SIMPLIFICATION_TOLERANCE_METERS))
                    ELSE {{}}
    /\ ret = Pending
    /\ RequestIdle

CallStats ==
    /\ call.fn = "calculate_stats"
    /\ ~ret.done
    /\ ret' = Returned(calculate_stats(call.segments, call.original_points))
    /\ UNCHANGED <<call, rounding, reqVars>>

\* lines 160-184 of get_activity_music on the streams and listens at hand
CallCompute ==
    /\ call.fn = "get_activity_music"
    /\ ~ret.done
    /\ \E original \in {original_gps_points(call.streams, call.activity_start,
                                             call.activity_end)},
          segments \in {build_activity_segments(call.streams, call.listens_with_tracks,
                            call.activity_start, call.activity_end,
                            call.simplify, call.tolerance)} :
         ret' = Returned(get_activity_music_result(segments, original))
    /\ UNCHANGED <<call, rounding, reqVars>>

NextStats == CallStats \/ CallCompute

SpecStats == InitStats /\ [][NextStats]_vars

\* ------------------------------------------------------------------------
\* One run of rdp_iterative, one iteration of its while loop per step
\* ------------------------------------------------------------------------
GridPoints == {GpsPoint(y, x) : y \in 0..GridMax, x \in {0, 1}}

\* epsilon as simplify_gps_route passes it on: finite and positive, or +inf
ValidEpsilons == {Fin(10), Fin(20), PosInf}

\* the epsilon that is exactly the largest distance of the whole route
ExactEpsilons(points) ==
    {FinSqrt(dist) :
       dist \in {d \in {perpendicular_distance(points[i], points[1], points[Len(points)]) :
                          i \in 2..(Len(points) - 1)} :
                  /\ d # Zero
                  /\ \A i \in 2..(Len(points) - 1) :
                        DistCmp(perpendicular_distance(points[i], points[1],
                                                       points[Len(points)]), d) # "gt"}}

\* distances depend on differences of longitude only: the routes start on
\* the meridian 0
InitRdp ==
    /\ \E n \in 3..MaxPoints :
         \E points \in {r \in [1..n -> GridPoints] : r[1].lng = 0} :
            \E epsilon \in ValidEpsilons \cup ExactEpsilons(points) :
               /\ call = [fn |-> "rdp_iterative", points |-> points,
                          epsilon |-> epsilon]
               /\ rounding \in Roundings(points, epsilon)
               /\ rdp = [keep |-> rdp_init(points).keep,
                         stack |-> rdp_init(points).stack,
                         pushed |-> rdp_init(points).stack]
    /\ ret = Pending
    /\ db_activity = None /\ db_listens = <<>>
    /\ pc = "idle" /\ req = NoRequest /\ activity = None
    /\ listens = <<>> /\ streams = <<>> /\ listens_with_tracks = <<>>
    /\ calls = <<>> /\ svc = Pending /\ response = NoResponse
    /\ sync = NoSync /\ other = NoOther

\* while let Some((start, end)) = stack.pop() { .. }
RdpStep ==
    /\ call.fn = "rdp_iterative"
    /\ ~ret.done
    /\ rdp.stack # <<>>
    /\ \E st \in {rdp_step(call.points, call.epsilon, rdp)} :
         rdp' = [keep |-> st.keep, stack |-> st.stack,
                 pushed |-> rdp.pushed \o SubSeq(st.stack, Len(rdp.stack), Len(st.stack))]
    /\ UNCHANGED <<call, rounding, ret, db_activity, db_listens, pc, req, activity, listens,
                   streams, listens_with_tracks, calls, svc, response, sync, other>>

\* the stack is empty: the loop ends and keep is returned
RdpReturn ==
    /\ call.fn = "rdp_iterative"
    /\ ~ret.done
    /\ rdp.stack = <<>>
    /\ ret' = Returned(Ok(rdp.keep))
    /\ UNCHANGED <<call, rounding, reqVars>>

NextRdp == RdpStep \/ RdpReturn

\* the loop runs on one thread and nothing suspends it
SpecRdp == InitRdp /\ [][NextRdp]_vars /\ WF_vars(NextRdp)

\* ------------------------------------------------------------------------
\* Vocabulary of the properties
\* ------------------------------------------------------------------------
BuildDone == call.fn = "build_activity_segments" /\ ret.done
SimplifyDone == call.fn = "simplify_gps_route" /\ ret.done

InWindow(ls, lo, hi) ==
    \A k \in 1..Len(ls) : ls[k].played_at >= lo /\ ls[k].played_at <= hi

ValidTolerance(tol) ==
    tol = None \/ (unwrap(tol).kind = "fin" /\ unwrap(tol).v > 0)

Contains(points, s) == \E j \in 1..Len(points) : points[j] = s

\* the time windows the specification gives to the segments, in output order
SegmentWindows(ls, lo, hi) ==
    IF ls = <<>>
    THEN << [lo |-> lo, hi |-> hi, closed |-> TRUE] >>
    ELSE (IF ls[1].played_at > lo
          THEN << [lo |-> lo, hi |-> ls[1].played_at, closed |-> FALSE] >>
          ELSE <<>>)
         \o [i \in 1..Len(ls) |->
               [lo |-> ls[i].played_at,
                hi |-> IF i < Len(ls) THEN ls[i + 1].played_at ELSE hi,
                closed |-> FALSE]]

WindowPoints(rows, w) ==
    Filter(rows,
          [k \in 1..Len(rows) |->
             /\ rows[k].time >= w.lo
             /\ (rows[k].time < w.hi \/ (w.closed /\ rows[k].time = w.hi))])

\* simplification is attempted on the samples of window w and fails
SimplifyFailsOn(rows, w, simplify, tol) ==
    LET pts == WindowPoints(rows, w)
    IN /\ simplify
       /\ Len(pts) >= 2
       /\ ~simplify_gps_route(pts,
              unwrap_or(tol, Fin(DEFAULT_SIMPLIFICATION_TOLERANCE_METERS))).ok

\* the service ran its synchronous tail (count, build, statistics): its last
\* query returned rows
Computed == /\ svc.done
            /\ calls # <<>>
            /\ calls[Len(calls)] = "find_listens_with_tracks"
            /\ svc.res.ok \/ svc.res.err # DB_ERR
ServiceOk == Computed /\ svc.res.ok
ReqSimplify == unwrap_or(req.simplify, TRUE)

\* ------------------------------------------------------------------------
\* C1  The final segment is closed at the activity end: with simplify = false
\* and listens sorted inside the activity window (or none), every sample whose
\* timestamp equals activity_end is among the points of the last segment.
\* ------------------------------------------------------------------------
C1_FinalSegmentClosed ==
    (/\ BuildDone
     /\ ~call.simplify
     /\ InWindow(call.listens, call.activity_start, call.activity_end))
    => /\ ret.res.ok
       /\ \A k \in 1..Len(call.streams) :
            call.streams[k].time = call.activity_end
            => Contains(ret.res.val[Len(ret.res.val)].points, call.streams[k])

\* ------------------------------------------------------------------------
\* C2  With simplify = true the statistics of get_activity_music satisfy
\* simplified_points <= original_points (reduction_ratio in [0, 1]).
\* ------------------------------------------------------------------------
C2_SimplifiedAtMostOriginal ==
    (ServiceOk /\ ReqSimplify)
    => svc.res.val.stats.simplified_points <= svc.res.val.stats.original_points

\* ------------------------------------------------------------------------
\* C3  With simplify = false the statistics satisfy
\* simplified_points == original_points.
\* ------------------------------------------------------------------------
C3_NoSimplificationRatioOne ==
    (ServiceOk /\ ~ReqSimplify)
    => svc.res.val.stats.simplified_points = svc.res.val.stats.original_points

\* ------------------------------------------------------------------------
\* C4  Every Ok result of build_activity_segments, for any ascending listens,
\* has first segment start_time == activity_start and last segment
\* end_time == activity_end.
\* ------------------------------------------------------------------------
C4_FirstStartLastEnd_AnyListens ==
    (BuildDone /\ ret.res.ok)
    => /\ ret.res.val[1].start_time = call.activity_start
       /\ ret.res.val[Len(ret.res.val)].end_time = call.activity_end

\* C4 as amended: the last segment always ends at activity_end; the first
\* segment starts at activity_start whenever the first listen is not before
\* activity_start (or there is no listen).
C4_FirstStartLastEnd ==
    (BuildDone /\ ret.res.ok)
    => /\ ret.res.val # <<>>
       /\ ret.res.val[Len(ret.res.val)].end_time = call.activity_end
       /\ (call.listens = <<>> \/ call.listens[1].played_at >= call.activity_start)
          => ret.res.val[1].start_time = call.activity_start

C4_Witness ==
    /\ BuildDone /\ ret.res.ok
    /\ Len(call.listens) = 2
    /\ call.listens[1].played_at > call.activity_start
    /\ call.listens[2].played_at > call.activity_end
    /\ Len(ret.res.val) = 3

\* ------------------------------------------------------------------------
\* C5  With simplify = false and listens sorted inside the window the points
\* of each segment are exactly the samples with start_time <= t < end_time.
\* ------------------------------------------------------------------------
HalfOpenPoints(seg) ==
    Filter(call.streams,
          [k \in 1..Len(call.streams) |->
             call.streams[k].time >= seg.start_time /\ call.streams[k].time < seg.end_time])
ClosedPoints(seg) ==
    Filter(call.streams,
          [k \in 1..Len(call.streams) |->
             call.streams[k].time >= seg.start_time /\ call.streams[k].time <= seg.end_time])

C5_HalfOpenEverywhere ==
    (/\ BuildDone
     /\ ~call.simplify
     /\ InWindow(call.listens, call.activity_start, call.activity_end))
    => /\ ret.res.ok
       /\ \A j \in 1..Len(ret.res.val) :
            ret.res.val[j].points = HalfOpenPoints(ret.res.val[j])

\* C5 as amended: half-open for every segment when there are listens; with an
\* empty listens list the single segment is the closed window; in both cases
\* no sample is in two segments and none is later than activity_end.
C5_SegmentPoints ==
    (/\ BuildDone
     /\ ~call.simplify
     /\ InWindow(call.listens, call.activity_start, call.activity_end))
    => /\ ret.res.ok
       /\ \A j \in 1..Len(ret.res.val) :
            /\ ret.res.val[j].points =
                 IF call.listens = <<>> THEN ClosedPoints(ret.res.val[j])
                 ELSE HalfOpenPoints(ret.res.val[j])
            /\ \A q \in 1..Len(ret.res.val[j].points) :
                 /\ ret.res.val[j].points[q].time <= call.activity_end
                 /\ \A i \in 1..Len(ret.res.val) :
                      i # j => ~Contains(ret.res.val[i].points,
                                         ret.res.val[j].points[q])

C5_Witness ==
    /\ BuildDone /\ ~call.simplify /\ ret.res.ok
    /\ call.listens = <<>>
    /\ \E q \in 1..Len(ret.res.val[1].points) :
         ret.res.val[1].points[q].time = call.activity_end
    /\ \E k \in 1..Len(call.streams) : call.streams[k].time > call.activity_end

\* ------------------------------------------------------------------------
\* C6  simplify_gps_route fails with InvalidEpsilon for every epsilon that is
\* not a finite strictly positive number (negative, zero, NaN, +infinity,
\* -infinity), whatever the input points are.
\* ------------------------------------------------------------------------
FinitePositive(e) == e.kind = "fin" /\ e.v > 0

C6_RejectsNonFinitePositive ==
    (SimplifyDone /\ ~FinitePositive(call.epsilon))
    => ret.res = Err("InvalidEpsilon")

\* ------------------------------------------------------------------------
\* C7  build_activity_segments with simplify = true returns Ok for every
\* stream in which some samples lack coordinates and emits one segment per
\* listen plus the leading one.
\* ------------------------------------------------------------------------
SparseCall ==
    /\ BuildDone
    /\ call.simplify
    /\ ValidTolerance(call.tolerance)
    /\ InWindow(call.listens, call.activity_start, call.activity_end)
    /\ \E k \in 1..Len(call.streams) : ~has_coords(call.streams[k])

CallWindows == SegmentWindows(call.listens, call.activity_start, call.activity_end)

C7_SparseAlwaysOk ==
    SparseCall => /\ ret.res.ok
                  /\ Len(ret.res.val) = Len(CallWindows)

\* C7 as amended: the call succeeds exactly when every segment that holds two
\* or more samples holds two or more samples with coordinates, and then emits
\* one segment per listen plus the leading one; otherwise it fails with
\* NoGpsCoordinates.
C7_SparseOkIffTwoCoords ==
    SparseCall
    => LET enough(w) == LET pts == WindowPoints(call.streams, CallWindows[w])
                        IN Len(pts) < 2 \/ Count(
                              [k \in 1..Len(pts) |->
                                 has_coords(pts[k])]) >= 2
       IN /\ ret.res.ok <=> \A w \in 1..Len(CallWindows) : enough(w)
          /\ ret.res.ok => Len(ret.res.val) = Len(CallWindows)
          /\ ~ret.res.ok => ret.res = Err("NoGpsCoordinates")

C7_Witness ==
    /\ SparseCall /\ ret.res.ok
    /\ Len(ret.res.val) = 2
    /\ \E j \in 1..2 :
         LET pts == WindowPoints(call.streams, CallWindows[j])
         IN Len(pts) >= 3 /\ Count([k \in 1..Len(pts) |-> has_coords(pts[k])]) = 2
            /\ Len(ret.res.val[j].points) = 2

\* ------------------------------------------------------------------------
\* C8  In the response, stats.simplified_points equals the number of points
\* listed over all segments of that response.
\* ------------------------------------------------------------------------
C8_StatsMatchResponse ==
    (pc = "done" /\ response.status = 200)
    => response.stats.simplified_points = SumLen(response.segments, 1)

\* ------------------------------------------------------------------------
\* C9  has_gps is true iff some segment emitted by the segment builder has a
\* non-empty points list.
\* ------------------------------------------------------------------------
C9_HasGpsIffBuilderPoints ==
    (pc = "done" /\ response.status = 200)
    => (response.has_gps
        <=> \E k \in 1..Len(svc.res.val.segments) :
               svc.res.val.segments[k].points # <<>>)

\* C9 as amended: has_gps is true iff some segment of the response lists a
\* point, that is iff some segment of the builder holds a sample that has both
\* coordinates.
C9_HasGpsIffCoordinates ==
    (pc = "done" /\ response.status = 200)
    => /\ response.has_gps
          <=> \E k \in 1..Len(svc.res.val.segments) :
                 \E j \in 1..Len(svc.res.val.segments[k].points) :
                    /\ svc.res.val.segments[k].points[j].latitude # None
                    /\ svc.res.val.segments[k].points[j].longitude # None
       /\ response.has_gps
          <=> SumLen(response.segments, 1) > 0

C9_Witness ==
    /\ pc = "done" /\ response.status = 200
    /\ ~response.has_gps
    /\ \E k \in 1..Len(svc.res.val.segments) : svc.res.val.segments[k].points # <<>>

\* ------------------------------------------------------------------------
\* C10  No partial results: when the simplification of any one segment
\* (leading, middle or last) fails, the service returns that error with no
\* segment and no statistics, and so does the handler.
\* ------------------------------------------------------------------------
\* the segments of the activity row the request read
ReqWindows == SegmentWindows(listens_with_tracks, unwrap(activity).start_time,
                             end_time_of(unwrap(activity)))
FailingWindows ==
    {w \in 1..Len(ReqWindows) :
        SimplifyFailsOn(streams, ReqWindows[w], ReqSimplify, req.tolerance)}

C10_NoPartialResults ==
    (Computed /\ FailingWindows # {})
    => /\ ~svc.res.ok
       /\ svc.res.val = <<>>
       /\ svc.res.err \in {"InvalidEpsilon", "NoGpsCoordinates"}
       /\ pc = "done" => /\ response.status = 400
                         /\ response.error = svc.res.err
                         /\ response.segments = <<>>
                         /\ response.stats = NoResponse.stats
                         /\ ~response.has_gps

\* the last of three segments fails while the two before it simplify
C10_Witness ==
    /\ Computed /\ pc = "done"
    /\ Len(ReqWindows) = 3
    /\ FailingWindows = {3}
    /\ Len(WindowPoints(streams, ReqWindows[1])) >= 2
    /\ response.status = 400

\* ------------------------------------------------------------------------
\* Vocabulary of the properties of simplify_gps_route
\* ------------------------------------------------------------------------
\* original indices (1-based) of the samples that have both coordinates
ValidIndices == extract_gps_points(call.points).index_map
PointAt(i) == GpsPoint(unwrap(call.points[i].latitude),
                       unwrap(call.points[i].longitude))
InResult(i) == \E k \in 1..Len(ret.res.val) : ret.res.val[k] = i
PassesValidation(e) == FinitePositive(e) \/ e = PosInf

\* the perpendicular distance in meters as the specification defines it:
\* |cross product| over the planar length, in degrees, at 111 320 m per
\* degree; the distance between the two points when the ends of the line
\* coincide
perpendicular_meters(point, line_start, line_end) ==
    LET lv0 == line_end.lng - line_start.lng
        lv1 == line_end.lat - line_start.lat
        pv0 == point.lng - line_start.lng
        pv1 == point.lat - line_start.lat
        cross == pv0 * lv1 - pv1 * lv0
        len_sq == lv0 * lv0 + lv1 * lv1
    IN IF len_sq = 0
       THEN equirectangular_distance(point, line_start)
       ELSE IF cross = 0 THEN Zero
       ELSE [kind |-> "planar", cross |-> Abs(cross), len_sq |-> len_sq, lat |-> 0]

\* that distance exceeds epsilon meters
ExceedsEpsilon(dist, e) ==
    CASE e.kind = "pinf" -> FALSE
      [] e.kind = "nan"  -> FALSE
      [] e.kind = "ninf" -> TRUE
      [] OTHER -> e.v < 0 \/ DistCmp(dist, e) = "gt"

RetainedBefore(i) ==
    CHOOSE j \in 1..Len(call.points) :
        /\ InResult(j) /\ j < i
        /\ \A m \in 1..Len(call.points) : (InResult(m) /\ m < i) => m <= j
RetainedAfter(i) ==
    CHOOSE j \in 1..Len(call.points) :
        /\ InResult(j) /\ j > i
        /\ \A m \in 1..Len(call.points) : (InResult(m) /\ m > i) => m >= j

\* ------------------------------------------------------------------------
\* C11  Tolerance guarantee: after a successful call on three or more valid
\* points, every sample with coordinates that is not retained lies between
\* two retained samples and is at most epsilon away from the line through the
\* nearest retained sample before it and the nearest retained sample after
\* it, in the distance the code computes and in meters.
\* ------------------------------------------------------------------------
C11_ToleranceGuarantee ==
    (SimplifyDone /\ ret.res.ok /\ Len(ValidIndices) >= 3)
    => \A k \in 1..Len(ValidIndices) :
         ~InResult(ValidIndices[k])
         => /\ \E j \in 1..Len(call.points) : InResult(j) /\ j < ValidIndices[k]
            /\ \E j \in 1..Len(call.points) : InResult(j) /\ j > ValidIndices[k]
            /\ ~DistGtEps(perpendicular_distance(PointAt(ValidIndices[k]),
                              PointAt(RetainedBefore(ValidIndices[k])),
                              PointAt(RetainedAfter(ValidIndices[k]))),
                          call.epsilon)
            /\ ~ExceedsEpsilon(perpendicular_meters(PointAt(ValidIndices[k]),
                              PointAt(RetainedBefore(ValidIndices[k])),
                              PointAt(RetainedAfter(ValidIndices[k]))),
                          call.epsilon)

\* an interior point is retained and another one is dropped
C11_Witness ==
    /\ SimplifyDone /\ ret.res.ok
    /\ FinitePositive(call.epsilon)
    /\ Len(ValidIndices) = 4
    /\ Len(ret.res.val) = 3

\* ------------------------------------------------------------------------
\* C12  Every successful call returns the index of the first sample with
\* coordinates as its first element and the index of the last sample with
\* coordinates as its last element.
\* ------------------------------------------------------------------------
C12_KeepsFirstAndLast ==
    (SimplifyDone /\ ret.res.ok)
    => /\ Len(ret.res.val) >= 2
       /\ ret.res.val[1] = ValidIndices[1]
       /\ ret.res.val[Len(ret.res.val)] = ValidIndices[Len(ValidIndices)]

\* the first sample has no coordinates and the interior point is dropped
C12_Witness ==
    /\ SimplifyDone /\ ret.res.ok
    /\ Len(ValidIndices) = 3
    /\ ValidIndices[1] = 2
    /\ ret.res.val = <<2, 4>>

\* ------------------------------------------------------------------------
\* C13  With an epsilon that passes the validation and fewer than two samples
\* with both coordinates the call fails with NoGpsCoordinates.
\* ------------------------------------------------------------------------
C13_NoGpsCoordinates ==
    (SimplifyDone /\ PassesValidation(call.epsilon) /\ Len(ValidIndices) < 2)
    => ret.res = Err("NoGpsCoordinates")

\* several samples, exactly one of them with coordinates
C13_Witness ==
    /\ SimplifyDone
    /\ FinitePositive(call.epsilon)
    /\ Len(call.points) >= 3
    /\ Len(ValidIndices) = 1
    /\ ret.res = Err("NoGpsCoordinates")

\* ------------------------------------------------------------------------
\* C14  With exactly two samples that have coordinates the call returns the
\* original indices of those two samples, for every epsilon that passes the
\* validation and whatever coordinate-less samples surround them.
\* ------------------------------------------------------------------------
C14_TwoValidPoints ==
    (SimplifyDone /\ PassesValidation(call.epsilon) /\ Len(ValidIndices) = 2)
    => ret.res = Ok(<<ValidIndices[1], ValidIndices[2]>>)

C14_Witness ==
    /\ SimplifyDone
    /\ call.epsilon = PosInf
    /\ ValidIndices = <<2, 4>>
    /\ ret.res = Ok(<<2, 4>>)

\* ------------------------------------------------------------------------
\* C15  The returned indices are strictly ascending, each is an index of the
\* input, and each refers to a sample that has both coordinates.
\* ------------------------------------------------------------------------
C15_IndicesAscendingValid ==
    (SimplifyDone /\ ret.res.ok)
    => \A k \in 1..Len(ret.res.val) :
         /\ ret.res.val[k] \in 1..Len(call.points)
         /\ has_coords(call.points[ret.res.val[k]])
         /\ k < Len(ret.res.val) => ret.res.val[k] < ret.res.val[k + 1]

\* three indices are returned around a sample without coordinates
C15_Witness ==
    /\ SimplifyDone /\ ret.res.ok
    /\ Len(ret.res.val) = 3
    /\ \E i \in 1..Len(call.points) :
         /\ ~has_coords(call.points[i])
         /\ ret.res.val[1] < i /\ i < ret.res.val[3]

\* ------------------------------------------------------------------------
\* C16  On three or more valid points the call returns only the two endpoints
\* if and only if no interior point lies farther than epsilon (meters) from
\* the line through the first and the last valid point.
\* ------------------------------------------------------------------------
C16_EndpointsIffWithinEpsilon ==
    (SimplifyDone /\ ret.res.ok /\ Len(ValidIndices) >= 3)
    => (Len(ret.res.val) = 2
        <=> \A k \in 2..(Len(ValidIndices) - 1) :
               ~ExceedsEpsilon(perpendicular_meters(PointAt(ValidIndices[k]),
                              PointAt(ValidIndices[1]),
                              PointAt(ValidIndices[Len(ValidIndices)])),
                          call.epsilon))

\* ------------------------------------------------------------------------
\* C17  With an empty listens list the builder emits exactly one segment:
\* index 0, no track, from activity_start to activity_end; with
\* simplify = false the call succeeds and the points are the input samples
\* with activity_start <= timestamp <= activity_end, in input order.
\* ------------------------------------------------------------------------
C17_NoListensSingleSegment ==
    (BuildDone /\ call.listens = <<>>)
    => /\ ~call.simplify => ret.res.ok
       /\ ret.res.ok
          => /\ Len(ret.res.val) = 1
             /\ ret.res.val[1].index = 0
             /\ ret.res.val[1].track = None
             /\ ret.res.val[1].start_time = call.activity_start
             /\ ret.res.val[1].end_time = call.activity_end
             /\ ~call.simplify
                => ret.res.val[1].points =
                     Filter(call.streams,
                       [k \in 1..Len(call.streams) |->
                          /\ call.streams[k].time >= call.activity_start
                          /\ call.streams[k].time <= call.activity_end])

\* a sample recorded before activity_start is left out
C17_Witness ==
    /\ BuildDone /\ call.listens = <<>> /\ ~call.simplify /\ ret.res.ok
    /\ \E k \in 1..Len(call.streams) : call.streams[k].time < call.activity_start
    /\ Len(ret.res.val[1].points) >= 2
    /\ ret.res.val[1].points[1].time = call.activity_start

\* ------------------------------------------------------------------------
\* C18  With a non-empty listens list a leading segment without track is
\* emitted if and only if the first listen is strictly after activity_start;
\* it spans from activity_start to the first listen's played_at; otherwise
\* the first segment is the first listen's segment.
\* ------------------------------------------------------------------------
C18_LeadingSegment ==
    (BuildDone /\ call.listens # <<>> /\ ret.res.ok)
    => IF call.listens[1].played_at > call.activity_start
       THEN /\ Len(ret.res.val) = Len(call.listens) + 1
            /\ ret.res.val[1].track = None
            /\ ret.res.val[1].start_time = call.activity_start
            /\ ret.res.val[1].end_time = call.listens[1].played_at
       ELSE /\ Len(ret.res.val) = Len(call.listens)
            /\ ret.res.val[1].track = call.listens[1].track
            /\ ret.res.val[1].start_time = call.listens[1].played_at

C18_Witness ==
    /\ BuildDone /\ ret.res.ok
    /\ Len(call.listens) = 1
    /\ call.listens[1].played_at > call.activity_start
    /\ call.listens[1].track # None
    /\ Len(ret.res.val) = 2
    /\ ret.res.val[1].points # <<>>

\* ------------------------------------------------------------------------
\* C19  With n >= 1 sorted listens inside the activity window the builder
\* emits n segments plus the leading one if present; the segment of listen i
\* starts at listens[i].played_at, ends at listens[i+1].played_at
\* (activity_end for the last listen) and carries listens[i].track;
\* consecutive segments are contiguous and every segment has
\* start_time <= end_time.
\* ------------------------------------------------------------------------
C19_ListenSegments ==
    (/\ BuildDone /\ call.listens # <<>> /\ ret.res.ok
     /\ InWindow(call.listens, call.activity_start, call.activity_end))
    => /\ Len(ret.res.val) - Len(call.listens) \in {0, 1}
       /\ \A i \in 1..Len(call.listens) :
            LET seg == ret.res.val[i + Len(ret.res.val) - Len(call.listens)]
            IN /\ seg.start_time = call.listens[i].played_at
               /\ seg.end_time = IF i < Len(call.listens)
                                 THEN call.listens[i + 1].played_at
                                 ELSE call.activity_end
               /\ seg.track = call.listens[i].track
       /\ \A j \in 1..(Len(ret.res.val) - 1) :
            ret.res.val[j].end_time = ret.res.val[j + 1].start_time
       /\ \A j \in 1..Len(ret.res.val) :
            ret.res.val[j].start_time <= ret.res.val[j].end_time

C19_Witness ==
    /\ BuildDone /\ ret.res.ok
    /\ InWindow(call.listens, call.activity_start, call.activity_end)
    /\ Len(call.listens) = 2
    /\ call.listens[1].played_at < call.listens[2].played_at
    /\ Len(ret.res.val) = 3
    /\ ret.res.val[2].points # <<>>
    /\ ret.res.val[3].points # <<>>

\* ------------------------------------------------------------------------
\* C20  In every Ok result the segment at output position k (from 0) has
\* index k, with or without a leading segment.
\* ------------------------------------------------------------------------
C20_IndicesConsecutive ==
    (BuildDone /\ ret.res.ok)
    => \A k \in 1..Len(ret.res.val) : ret.res.val[k].index = k - 1

C20_Witness ==
    /\ BuildDone /\ ret.res.ok /\ call.simplify
    /\ Len(call.listens) = 2
    /\ Len(ret.res.val) = 3
    /\ ret.res.val[1].track = None
    /\ ret.res.val[3].index = 2

\* ------------------------------------------------------------------------
\* Statistics
\* ------------------------------------------------------------------------
StatsDone == call.fn = "calculate_stats" /\ ret.done
ComputeDone == call.fn = "get_activity_music" /\ ret.done /\ ret.res.ok

\* the segments a statistics record was computed from, and the record
StatsSegments == IF call.fn = "calculate_stats" THEN call.segments
                 ELSE ret.res.val.segments
StatsRecord == IF call.fn = "calculate_stats" THEN ret.res ELSE ret.res.val.stats

Unresolved(ls) == {k \in 1..Len(ls) : ls[k].track = None}
WithoutTrack(segs) == {j \in 1..Len(segs) : segs[j].track = None}

\* C21: a listen whose track could not be resolved still has its own segment,
\* in the position of the listen, starting at its played_at and with track
\* None, and the statistics count that segment in segments_without_music
C21_UnresolvedListenSegment ==
    (ComputeDone /\ call.listens_with_tracks # <<>>) =>
        LET l == call.listens_with_tracks
            segs == ret.res.val.segments
            off == Len(segs) - Len(l)
        IN /\ off \in {0, 1}
           /\ \A k \in Unresolved(l) :
                 /\ segs[off + k].track = None
                 /\ segs[off + k].start_time = l[k].played_at
                 /\ off + k \in WithoutTrack(segs)
           /\ ret.res.val.stats.segments_without_music = Cardinality(WithoutTrack(segs))
           /\ ret.res.val.stats.segments_without_music >= Cardinality(Unresolved(l))

C21_Witness ==
    /\ ComputeDone
    /\ Len(call.listens_with_tracks) = 2
    /\ call.listens_with_tracks[1].played_at <= ActivityStart
    /\ Unresolved(call.listens_with_tracks) = {2}
    /\ ret.res.val.stats.segments_without_music = 1
    /\ ret.res.val.stats.segments_with_music = 1

\* C22: segments_with_music + segments_without_music = total_segments = the
\* number of segments, and segments_with_music is the number of segments
\* whose track is present
C22_SegmentCounts ==
    ((StatsDone \/ ComputeDone)) =>
        /\ StatsRecord.total_segments = Len(StatsSegments)
        /\ StatsRecord.segments_with_music + StatsRecord.segments_without_music
              = StatsRecord.total_segments
        /\ StatsRecord.segments_with_music
              = Len(StatsSegments) - Cardinality(WithoutTrack(StatsSegments))

C22_Witness ==
    /\ StatsDone
    /\ ret.res.total_segments = 3
    /\ ret.res.segments_with_music = 2
    /\ ret.res.segments_without_music = 1
    /\ call.segments[1].track = None /\ call.segments[1].points # <<>>
    /\ call.segments[2].track # None /\ call.segments[2].points = <<>>

\* C23: reduction_ratio is 0 whenever original_points is 0, also when the
\* segments hold points
C23_ZeroOriginalZeroRatio ==
    ((StatsDone \/ ComputeDone) /\ StatsRecord.original_points = 0) =>
        /\ StatsRecord.reduction_ratio.num = 0
        /\ StatsRecord.reduction_ratio.den # 0

C23_Witness ==
    /\ StatsDone
    /\ call.original_points = 0
    /\ ret.res.simplified_points > 0
    /\ ret.res.reduction_ratio.num = 0

\* ------------------------------------------------------------------------
\* Default tolerance
\* ------------------------------------------------------------------------
\* what the call at hand returns when its tolerance is replaced by tol
BuildWithTolerance(tol) ==
    build_activity_segments(call.streams, call.listens, call.activity_start,
                            call.activity_end, call.simplify, tol)

\* C24: with simplify = true, a call with tolerance None returns exactly what
\* the same call with tolerance Some(10.0) returns
C24_NoneIsTenMeters ==
    (BuildDone /\ call.simplify /\ call.tolerance = None) =>
        ret.res = BuildWithTolerance(Some(Fin(10)))

\* a call on which 10 m and 20 m give different segments
C24_Witness ==
    /\ BuildDone /\ call.simplify /\ call.tolerance = None
    /\ ret.res.ok
    /\ ret.res = BuildWithTolerance(Some(Fin(10)))
    /\ ret.res # BuildWithTolerance(Some(Fin(20)))
    /\ \E j \in 1..Len(ret.res.val) : Len(ret.res.val[j].points) >= 3

\* ------------------------------------------------------------------------
\* Order of the collaborator calls of get_activity_music
\* ------------------------------------------------------------------------
CallsOf(name) == {i \in 1..Len(calls) : calls[i] = name}

\* the request is inside sync_lastfm_for_time_range
Syncing == pc \in {"upsert_track", "batch_create_listens", "saved_listens"}

\* C25: within one request sync_lastfm_for_time_range is invoked at most once,
\* only after the initial listen lookup returned no listens, and it has
\* returned before the listen-with-track lookup is made (which is not made
\* when the sync fails in any of its steps); it is never invoked when the
\* initial lookup returned listens
C25_SyncOnceWhenEmpty ==
    LET syncs == CallsOf("sync_lastfm_for_time_range")
        lookups == CallsOf("get_listens_by_user_time_range")
        finds == CallsOf("find_listens_with_tracks")
    IN /\ Cardinality(syncs) <= 1
       /\ \A i \in syncs :
             /\ listens = <<>>
             /\ \E j \in lookups : j < i
             /\ \A j \in finds : i < j
       /\ listens # <<>> => syncs = {}
       /\ \A j \in finds : \E i \in lookups : i < j
       /\ Syncing => (syncs # {} /\ finds = {})
       /\ (pc = "find_listens" \/ finds # {}) => sync = NoSync
       /\ (svc.done /\ calls # <<>>
              /\ calls[Len(calls)] = "sync_lastfm_for_time_range")
          => (~svc.res.ok /\ svc.res.err \in {INTEGRATION_ERR, DB_ERR} /\ finds = {})

\* a request that synchronised and then found the listens just saved
C25_Witness ==
    /\ pc = "done"
    /\ response.status = 200
    /\ listens = <<>>
    /\ listens_with_tracks # <<>>
    /\ CallsOf("sync_lastfm_for_time_range") = {4}
    /\ CallsOf("find_listens_with_tracks") = {6}

\* ------------------------------------------------------------------------
\* Authorization
\* ------------------------------------------------------------------------
OwnershipErrors == {"Activity not found", "Activity does not belong to the user"}

\* the row get_activity_by_id is about to read is missing or someone else's
Unauthorized ==
    /\ pc = "get_activity"
    /\ \/ db_activity = None
       \/ unwrap(db_activity).user_id # unwrap(req.user)

\* the step of the request from the activity lookup: the service returns the
\* error of the missing or foreign row (or the error of the failed lookup),
\* the handler answers 400, and no table is written
C30_ErrorAtLookup ==
    (Unauthorized /\ pc' # pc) =>
        /\ pc' = "done"
        /\ svc'.done /\ ~svc'.res.ok
        /\ svc'.res.err \in {IF db_activity = None THEN "Activity not found"
                               ELSE "Activity does not belong to the user", DB_ERR}
        /\ response'.status = 400
        /\ db_listens' = db_listens /\ db_activity' = db_activity

\* after that error nothing else was called or read, and the request is over
C30_ErrorBeforeAnyLookup ==
    (svc.done /\ ~svc.res.ok /\ svc.res.err \in OwnershipErrors) =>
        /\ calls = << "get_activity_by_id" >>
        /\ listens = <<>> /\ streams = <<>> /\ listens_with_tracks = <<>>
        /\ sync = NoSync
        /\ pc = "done"
        /\ response.status = 400
        /\ response.error = svc.res.err
        /\ response.segments = <<>>

\* no step is taken once the response is built
C30_NothingWritten == pc # "done"

\* C30: when the activity does not exist or is not owned by the requester,
\* get_activity_music returns its error after get_activity_by_id alone: no
\* listen lookup, no sync, no stream read, and the request writes no table
C30_UnauthorizedStopsEarly ==
    /\ [](C30_ErrorBeforeAnyLookup)
    /\ [][C30_ErrorAtLookup /\ C30_NothingWritten]_vars

\* the request for a foreign activity was answered while the requester has listens
C30_Witness ==
    /\ pc = "done"
    /\ req.user # None
    /\ activity # None
    /\ unwrap(activity).user_id # unwrap(req.user)
    /\ db_listens # <<>>
    /\ calls = << "get_activity_by_id" >>
    /\ response.status = 400
    /\ response.error = "Activity does not belong to the user"

\* ------------------------------------------------------------------------
\* Frame: the builder copies samples, it never makes or changes one
\* ------------------------------------------------------------------------
RECURSIVE IsSubsequenceFrom(_, _, _, _)
\* p from position i on is found, in order, in s from position j on
IsSubsequenceFrom(p, s, i, j) ==
    IF i > Len(p) THEN TRUE
    ELSE IF j > Len(s) THEN FALSE
    ELSE IF s[j] = p[i] THEN IsSubsequenceFrom(p, s, i + 1, j + 1)
         ELSE IsSubsequenceFrom(p, s, i, j + 1)

\* p is s with some elements left out: equal elements in the same order
IsSubsequence(p, s) == IsSubsequenceFrom(p, s, 1, 1)

\* C26: every point of every returned segment is an unmodified copy of one
\* input sample, and the points of a segment keep the order of the input,
\* with or without simplification
C26_PointsAreInputSamples ==
    (BuildDone /\ ret.res.ok) =>
        \A j \in 1..Len(ret.res.val) :
            IsSubsequence(ret.res.val[j].points, call.streams)

\* a simplified segment that dropped a sample of its window
C26_Witness ==
    /\ BuildDone /\ ret.res.ok /\ call.simplify
    /\ \E j \in 1..Len(ret.res.val) :
         /\ Len(ret.res.val[j].points) >= 2
         /\ Len(ret.res.val[j].points) < Len(call.streams)
         /\ \A q \in 1..Len(ret.res.val[j].points) :
               /\ has_coords(ret.res.val[j].points[q])
               /\ is_some(ret.res.val[j].points[q].heart_rate)
    /\ \E j \in 1..Len(ret.res.val) :
         Len(ret.res.val[j].points) < Len(WindowPoints(call.streams,
                 SegmentWindows(call.listens, call.activity_start, call.activity_end)[j]))

\* ------------------------------------------------------------------------
\* When the tolerance is looked at
\* ------------------------------------------------------------------------
\* simplify_gps_route rejects the tolerance (epsilon <= 0.0 or NaN)
RejectedTolerance(tol) ==
    /\ tol # None
    /\ ~PassesValidation(unwrap(tol))

\* the segments of the call at hand, as windows of time
BuildWindows == SegmentWindows(call.listens, call.activity_start, call.activity_end)

\* C29: with simplify = true and a tolerance the validation rejects, the call
\* fails with InvalidEpsilon exactly when some segment holds at least two
\* samples, and otherwise returns Ok with the raw points of every segment;
\* with simplify = false it returns Ok for every tolerance.  Every rejected
\* tolerance (zero, negative, -inf, NaN) gives the same result
C29_ToleranceSeenOnlyWhenSimplifying ==
    BuildDone =>
        /\ ~call.simplify => ret.res.ok
        /\ (call.simplify /\ RejectedTolerance(call.tolerance)) =>
             LET raw == [j \in 1..Len(BuildWindows) |->
                           WindowPoints(call.streams, BuildWindows[j])]
             IN /\ IF \E j \in 1..Len(raw) : Len(raw[j]) >= 2
                   THEN ret.res = Err("InvalidEpsilon")
                   ELSE /\ ret.res.ok
                        /\ Len(ret.res.val) = Len(raw)
                        /\ \A j \in 1..Len(raw) : ret.res.val[j].points = raw[j]
                /\ \A e \in {Fin(0), Fin(-1), NegInf, NaN} :
                      BuildWithTolerance(Some(e)) = ret.res

\* a rejected tolerance that goes unnoticed: three samples, one per segment
C29_Witness ==
    /\ BuildDone /\ call.simplify
    /\ RejectedTolerance(call.tolerance)
    /\ ret.res.ok
    /\ Len(ret.res.val) = 3
    /\ \A j \in 1..3 : Len(ret.res.val[j].points) = 1

\* ------------------------------------------------------------------------
\* The work list of rdp_iterative
\* ------------------------------------------------------------------------
RdpRunning == call.fn = "rdp_iterative"
RdpDone == RdpRunning /\ ret.done

\* ranges are (start, end) with 1-based indices: the source's 0 <= start <
\* end <= n - 1 reads 1 <= start < end <= n
ValidRange(r, n) == 1 <= r[1] /\ r[1] < r[2] /\ r[2] <= n

\* every range ever pushed is valid, the ranges on the stack are among them,
\* the two ranges of a push share a split index strictly inside a range
\* pushed before, and no range occurs twice
C27_WorkList ==
    RdpRunning =>
        LET n == Len(call.points)
            pushed == rdp.pushed
        IN /\ \A k \in 1..Len(pushed) : ValidRange(pushed[k], n)
           /\ \A k \in 1..Len(rdp.stack) :
                 /\ ValidRange(rdp.stack[k], n)
                 /\ \E j \in 1..Len(pushed) : pushed[j] = rdp.stack[k]
           /\ \A j, k \in 1..Len(pushed) : pushed[j] = pushed[k] => j = k
           /\ Len(pushed) % 2 = 1
           /\ pushed[1] = <<1, n>>
           /\ \A m \in 1..(Len(pushed) \div 2) :
                 /\ pushed[2 * m][2] = pushed[2 * m + 1][1]
                 /\ pushed[2 * m][1] < pushed[2 * m][2]
                 /\ pushed[2 * m + 1][1] < pushed[2 * m + 1][2]
                 /\ \E k \in 1..(2 * m - 1) :
                       pushed[k] = <<pushed[2 * m][1], pushed[2 * m + 1][2]>>

\* C27: for a route of n >= 3 points and a validated epsilon the loop of
\* rdp_iterative terminates, and all along every range on the work list
\* satisfies 0 <= start < end <= n - 1, the split index lies strictly between
\* start and end, and no range is pushed twice
C27_WorkListTerminates == [](C27_WorkList) /\ <>(RdpDone)

\* a finished run that split twice
C27_Witness ==
    /\ RdpDone
    /\ Len(call.points) = 4
    /\ Len(rdp.pushed) = 5
    /\ rdp.stack = <<>>
    /\ ret.res.val = <<TRUE, TRUE, TRUE, TRUE>>

\* the range an iteration pops, its interior, and the distance of point i
RdpTop == rdp.stack[Len(rdp.stack)]
RdpInterior == (RdpTop[1] + 1)..(RdpTop[2] - 1)
RdpDist(i) == perpendicular_distance(call.points[i], call.points[RdpTop[1]],
                                     call.points[RdpTop[2]])

\* interior points no other interior point is farther than
RdpFarthest == {i \in RdpInterior : \A j \in RdpInterior : ~DistGt(RdpDist(j), RdpDist(i))}

Lowest(S) == CHOOSE i \in S : \A j \in S : i <= j

\* dist > e for a validated e, with dist = e not counted
StrictlyGreater(dist, e) ==
    /\ e.kind \in {"fin", "sqrt"}
    /\ \E b \in {IF e.kind = "sqrt" THEN e.dist ELSE e} :
           dist # b /\ DistGt(dist, b)

\* what one iteration does to keep and stack
C28_SplitRule ==
    (RdpRunning /\ rdp.stack # <<>> /\ rdp' # rdp) =>
        LET rest == SubSeq(rdp.stack, 1, Len(rdp.stack) - 1)
        IN IF RdpInterior # {}
              /\ StrictlyGreater(RdpDist(Lowest(RdpFarthest)), call.epsilon)
           THEN /\ rdp'.keep = [rdp.keep EXCEPT ![Lowest(RdpFarthest)] = TRUE]
                /\ ~rdp.keep[Lowest(RdpFarthest)]
                /\ rdp'.stack = rest \o << <<RdpTop[1], Lowest(RdpFarthest)>>,
                                            <<Lowest(RdpFarthest), RdpTop[2]>> >>
           ELSE /\ rdp'.keep = rdp.keep
                /\ rdp'.stack = rest

\* C28: the split point of a range is the lowest-index interior point that
\* attains the maximum distance (the first in scan order on ties), and it is
\* retained only when that maximum is strictly greater than epsilon: a
\* maximum equal to epsilon, or all distances 0, retains no interior point
C28_LowestFarthestStrict == [][C28_SplitRule]_vars

\* a finished run whose epsilon is exactly the largest distance: the interior
\* point off the line is not retained
C28_ExactEpsilon ==
    /\ RdpDone
    /\ call.epsilon.kind = "sqrt"
    /\ Len(call.points) = 3
    /\ perpendicular_distance(call.points[2], call.points[1], call.points[3]) # Zero
    /\ ret.res.val = <<TRUE, FALSE, TRUE>>

\* a finished run that split at the first of two equally distant points
C28_Witness ==
    /\ RdpDone
    /\ Len(call.points) = 4
    /\ ~DistGt(perpendicular_distance(call.points[2], call.points[1], call.points[4]),
               perpendicular_distance(call.points[3], call.points[1], call.points[4]))
    /\ ~DistGt(perpendicular_distance(call.points[3], call.points[1], call.points[4]),
               perpendicular_distance(call.points[2], call.points[1], call.points[4]))
    /\ Len(rdp.pushed) >= 3
    /\ rdp.pushed[2] = <<1, 2>>
    /\ ret.res.val = <<TRUE, TRUE, FALSE, TRUE>>


====
